---- MODULE Spec2Model ----
(***************************************************************************)
(* Model of the roe-golang client core: the retrying HTTP transport        *)
(* (httpClient.doRequest), the single-job poller (Job.WaitContext), the    *)
(* batch poller (JobBatch.WaitContext, JobBatch.RetrieveStatus), the batch *)
(* submission (AgentsAPI.RunManyWithContext), the batch status and result  *)
(* calls with their helpers, the typed errors (errors.go), the headers,    *)
(* hooks, logging and backoff of an attempt, and the dynamic-input         *)
(* submission (postDynamicInputs).                                         *)
(*                                                                         *)
(* The specifications of the module:                                       *)
(*   SpecHTTP  - one logical request through httpClient.doRequest          *)
(*   SpecJob   - one Job.WaitContext call                                  *)
(*   SpecBatch - one JobBatch.WaitContext call                             *)
(*   SpecWait  - one wait of either kind, with its timeout                 *)
(*   SpecWaitLive - SpecWait with weak fairness of the steps of the waits  *)
(*   SpecCalls - one call of a function without state                      *)
(*   SpecRunMany - one AgentsAPI.RunManyWithContext call                   *)
(*   SpecSnapshot - JobBatch.RetrieveStatus calls around one wait          *)
(*   SpecSubmit - one submission: Run, RunVersion or RunMany               *)
(*   SpecSequence - waits and RetrieveStatus calls on one batch, in turn   *)
(*   SpecSend  - one logical request, with its method, headers and body    *)
(*   SpecPair  - two interleaved requests on one client                    *)
(*   SpecRace  - a RetrieveStatus call during a wait on the same batch     *)
(* The variables of the other components stay at their initial values.     *)
(***************************************************************************)
EXTENDS Integers, Sequences, FiniteSets, TLC

VARIABLES
    \* ---- httpClient.doRequest ----
    cfg,        \* the client's Config (the fields doRequest reads)
    ctxErr,     \* ctx.Err() of the context passed in: "nil", "Canceled", "DeadlineExceeded"
    pc,         \* position of doRequest: "entry", "loop", "sleep", "done"
    attempt,    \* the loop variable of doRequest
    lastErr,    \* the local lastErr of doRequest
    calls,      \* history: outcome of every c.client.Do made, in order
    ret,        \* what doRequest returned: [body, err]
    ctxDoneAt,  \* history: where doRequest was when the context became done
    slept,      \* history: the last sleep before a retry, and what it followed
    hooked,     \* history: the runs of the hook lists, and the hooks of the last runs
    args,       \* the arguments of doRequest: [method, url, headers, body]
    bodyBytes,  \* the local bodyBytes of doRequest
    wire,       \* history: the request handed to c.client.Do by every attempt, in order
    \* ---- Job.WaitContext ----
    jobID,       \* j.jobID
    agentsAPI,   \* whether j.agentsAPI is set (a zero Job has none)
    jpc,         \* position of Job.WaitContext
    jctx,        \* Err() of the context the wait observes: "nil", "Canceled", "DeadlineExceeded"
    jstatus,     \* the local status of the current iteration
    statusCalls, \* history: outcome of every status call, in order
    resultCalls, \* history: outcome of every result call, in order
    jret,        \* what Job.WaitContext returned: [result, err]
    jtrace,      \* history: the kinds of calls made, in order
    jtimeout,    \* j.timeout, the job's configured timeout
    jcaller,     \* Err() of the context the caller passed in
    jtimer,      \* the deadline timer of the derived context: "unset", "off", "armed", "fired"
    jdoneAt,     \* history: where the wait was when its context became done
    \* ---- JobBatch.WaitContext ----
    jobIDs,     \* b.jobIDs, the canonical order
    statuses,   \* b.statuses: job id -> last known status
    completed,  \* b.completed: job id -> converted result
    pending,    \* the local pending of WaitContext
    failures,   \* the local failures of WaitContext
    ready,      \* the local ready of the current iteration
    bpc,        \* position of JobBatch.WaitContext
    bctx,       \* Err() of the context the wait observes
    bret,       \* what JobBatch.WaitContext returned: [results, err]
    reported,   \* history: job id -> the last status the remote reported for it
    fetched,    \* history: job id -> the last result entry the remote returned for it
    arrival,    \* history: the tracked ids in the order their result entries arrived
    btimeout,   \* b.timeout, the batch's configured timeout
    bcaller,    \* Err() of the context the caller passed in
    btimer,     \* the deadline timer of the derived context: "unset", "off", "armed", "fired"
    bdoneAt,    \* history: where the wait was when its context became done
    bfailed,    \* history: the first request of the wait that failed, and the requests after it
    \* ---- functions without state ----
    fcall,      \* the function called and its arguments
    fret,       \* what the call returned, once it has
    \* ---- AgentsAPI.RunManyWithContext ----
    rmArgs,     \* the arguments: [agentID, batchInputs, size]
    rmctx,      \* Err() of the context passed in
    rmpc,       \* position of RunManyWithContext
    rmi,        \* the index of the chunk the loop is at
    rmSent,     \* history: the chunks a request was sent for, in order
    rmJobIDs,   \* the local jobIDs
    rmRet,      \* what RunManyWithContext returned: [batch, err]
    rmDoneAt,   \* history: where the call was when the context became done
    \* ---- JobBatch.RetrieveStatus ----
    snapCalls,   \* history: the number of RetrieveStatus calls made
    snapBefore,  \* history: b.statuses as the last call found it
    snapQueried, \* history: the local toQuery of the last call
    snapRet,     \* what the last call returned: [statuses, err]
    snapWaits,   \* history: the number of WaitContext calls made on the batch
    \* ---- two calls of doRequest on one client ----
    parked,     \* the locals of the call that is not running, if there are two calls
    running,    \* which of the two calls the locals of doRequest above belong to
    \* ---- JobBatch.RetrieveStatus called while WaitContext runs ----
    rpc,        \* position of the overlapping RetrieveStatus
    rquery,     \* its local toQuery
    rlocal,     \* its local statusMap
    rwrites,    \* the entries of its statusBatch still to be written
    raceBefore, \* b.statuses as the write under way found it
    rret        \* what it returned: [statuses, err]

httpVars  == <<cfg, ctxErr, pc, attempt, lastErr, calls, ret, ctxDoneAt, slept, hooked,
               args, bodyBytes, wire>>
jobVars   == <<jobID, agentsAPI, jpc, jctx, jstatus, statusCalls, resultCalls, jret, jtrace,
               jtimeout, jcaller, jtimer, jdoneAt>>
batchVars == <<jobIDs, statuses, completed, pending, failures, ready, bpc, bctx,
               bret, reported, fetched, arrival, btimeout, bcaller, btimer, bdoneAt,
               bfailed>>
callVars  == <<fcall, fret>>
runVars   == <<rmArgs, rmctx, rmpc, rmi, rmSent, rmJobIDs, rmRet, rmDoneAt>>
snapVars  == <<snapCalls, snapBefore, snapQueried, snapRet, snapWaits>>
pairVars  == <<parked, running>>
raceVars  == <<rpc, rquery, rlocal, rwrites, raceBefore, rret>>
vars      == <<httpVars, jobVars, batchVars, callVars, runVars, snapVars, pairVars, raceVars>>

\* the components an action does not belong to are left alone
HTTPFrame  == UNCHANGED <<jobVars, batchVars, callVars, runVars, snapVars, pairVars, raceVars>>
JobFrame   == UNCHANGED <<httpVars, batchVars, callVars, runVars, snapVars, pairVars, raceVars>>
BatchFrame == UNCHANGED <<httpVars, jobVars, callVars, runVars, snapVars, pairVars, raceVars>>
CallFrame  == UNCHANGED <<httpVars, jobVars, batchVars, runVars, snapVars, pairVars, raceVars>>
RunFrame   == UNCHANGED <<httpVars, jobVars, batchVars, callVars, snapVars, pairVars, raceVars>>

----------------------------------------------------------------------------
(* Bounds of the model *)

\* largest configured MaxRetries explored (the smallest is -1: Config is not validated)
MaxRetriesBound == 2

\* most status calls one Job.WaitContext makes
MaxPolls == 3

\* longest list of job ids a batch tracks
MaxJobs == 3

\* longest list of items chunkStrings and chunkAny are called with
MaxItems == 5

\* longest list of job ids the batch status and result calls are called with
MaxIDs == 3

\* longest list of inputs RunManyWithContext is called with
MaxInputs == 5

\* most JobBatch.RetrieveStatus calls made on one batch
MaxSnapshots == 2

\* most JobBatch.WaitContext calls made on one batch
MaxWaits == 2

\* longest Retry-After value parseRetryAfter is called with, in characters
MaxChars == 6

\* width of a time.Duration in the model.  Durations are counted in seconds and
\* kept in DurationBits bits, two's complement (Go: nanoseconds in 64 bits), so
\* that a product of seconds wraps around the way the int64 product does.
DurationBits == 16

\* the largest attempt number backoffDuration is called with
MaxAttempt == 16

----------------------------------------------------------------------------
(* Error values.  Every error is a record of the same shape:                *)
(*   kind   - "nil", "ctx", "transport", "api", "local"                     *)
(*   name   - the sentinel or typed variant the error is (errors.Is/As)     *)
(*   status - HTTP status of a typed API error, 0 otherwise                 *)
(*   at     - index of the attempt that produced it (0 when none)           *)
(*   ids    - the job ids the message names (empty when none)               *)

Err(kind, name, status, at) ==
    [kind |-> kind, name |-> name, status |-> status, at |-> at, ids |-> {}]

\* an error of the pollers: its message names job ids, and name is what it
\* wraps (%w) or reports (the ending status)
JobErr(kind, name, ids) ==
    [kind |-> kind, name |-> name, status |-> 0, at |-> 0, ids |-> ids]

NilErr == Err("nil", "nil", 0, 0)

\* ctx.Err() as an error value
CtxError(c) == Err("ctx", c, 0, 0)

\* the error c.client.Do returns for attempt number at (1-based)
TransportError(name, at) == Err("transport", name, 0, at)

\* HTTP statuses the remote answers with in the model
Statuses == {200, 204, 400, 401, 403, 404, 408, 429, 500, 503}

\* names of transport-level failures of c.client.Do: a network failure, or the
\* request's context (or the client's own timeout) ending the call
TransportErrNames == {"net", "Canceled", "DeadlineExceeded"}

----------------------------------------------------------------------------
(* helpers: Go maps as functions, slices as sequences *)

SetOf(seq) == {seq[i] : i \in DOMAIN seq}

EmptyMap == [k \in {} |-> 0]

Put(m, k, v) == [x \in DOMAIN m \cup {k} |-> IF x = k THEN v ELSE m[x]]

\* a nil pointer, and a pointer to v
Nil == <<>>
Ptr(v) == <<v>>

SeqsUpTo(S, n) == UNION {[1 .. k -> S] : k \in 0 .. n}

\* the orders in which a response can list the ids of S
Perms(S) == {p \in [1 .. Cardinality(S) -> S] : \A i, j \in 1 .. Cardinality(S) : p[i] = p[j] => i = j}

RECURSIVE Flatten(_)
Flatten(seqs) == IF seqs = <<>> THEN <<>> ELSE Head(seqs) \o Flatten(Tail(seqs))

\* a signed integer of DurationBits bits, as the machine keeps it
WrapDuration(n) ==
    ((n + 2 ^ (DurationBits - 1)) % (2 ^ DurationBits)) - 2 ^ (DurationBits - 1)


----------------------------------------------------------------------------
(* errors.go: apiErrorFromResponse and parseRetryAfter; net/http headers *)

\* A string that is parsed is a sequence of characters; "" is <<>>.
\* the characters of the header values of the model
Chars == {"-", "0", "9", "D", "x"}

Digits == {"0", "9"}

DigitValue(c) == IF c = "9" THEN 9 ELSE 0

\* the number a string of digits denotes
RECURSIVE DecimalValue(_)
DecimalValue(s) ==
    IF s = <<>> THEN 0 ELSE 10 * DecimalValue(SubSeq(s, 1, Len(s) - 1)) + DigitValue(s[Len(s)])

\* width of the machine's int, wider than the seconds a Duration can hold
IntBits == DurationBits + 2

\* strconv.Atoi: an optional sign and decimal digits, within the range of int
Atoi(s) ==
    LET signed == Len(s) > 0 /\ s[1] = "-"
        body == IF signed THEN Tail(s) ELSE s
        n == IF signed THEN 0 - DecimalValue(body) ELSE DecimalValue(body)
    IN IF body = <<>> \/ (\E i \in DOMAIN body : body[i] \notin Digits)
       THEN [ok |-> FALSE, n |-> 0]
       ELSE IF n < 0 - 2 ^ (IntBits - 1) \/ n > 2 ^ (IntBits - 1) - 1
       THEN [ok |-> FALSE, n |-> 0]
       ELSE [ok |-> TRUE, n |-> n]

\* http.ParseTime: the HTTP-dates of the model are written "D" followed by
\* the digits of the time in seconds
ParseTime(s) ==
    IF Len(s) >= 2 /\ s[1] = "D" /\ (\A i \in 2 .. Len(s) : s[i] \in Digits)
    THEN [ok |-> TRUE, t |-> DecimalValue(Tail(s))]
    ELSE [ok |-> FALSE, t |-> 0]

\* time.Until(t) at the time now: t.Sub(now), which saturates
Until(t, now) ==
    LET d == t - now
    IN IF d > 2 ^ (DurationBits - 1) - 1 THEN 2 ^ (DurationBits - 1) - 1
       ELSE IF d < 0 - 2 ^ (DurationBits - 1) THEN 0 - 2 ^ (DurationBits - 1)
       ELSE d

\* textproto.CanonicalMIMEHeaderKey on the header names of the model
CanonicalKey(name) ==
    CASE name \in {"X-Request-Id", "x-request-id", "X-REQUEST-ID"} -> "X-Request-Id"
      [] name \in {"Retry-After", "retry-after"} -> "Retry-After"
      [] name \in {"Authorization", "authorization"} -> "Authorization"
      [] name \in {"X-Request-ID"} -> "X-Request-Id"
      [] OTHER -> name

\* http.Header.Get: the first value under the canonical key, "" if none
Get(h, name) ==
    IF CanonicalKey(name) \in DOMAIN h /\ Len(h[CanonicalKey(name)]) > 0
    THEN h[CanonicalKey(name)][1]
    ELSE <<>>

\* http.Header.Add: the value is appended to those under the canonical key
Add(h, key, value) ==
    LET k == CanonicalKey(key)
    IN Put(h, k, (IF k \in DOMAIN h THEN h[k] ELSE <<>>) \o <<value>>)

\* http.Header.Set: the value replaces those under the canonical key
Set(h, key, value) == Put(h, CanonicalKey(key), <<value>>)

\* for k, vals := range src { for _, v := range vals { h.Add(k, v) } }, for a
\* map src that spells no header in two ways
AddAll(h, src) ==
    LET spelled(k) == {x \in DOMAIN src : CanonicalKey(x) = k}
        added(k)   == IF spelled(k) = {} THEN <<>> ELSE src[CHOOSE x \in spelled(k) : TRUE]
        old(k)     == IF k \in DOMAIN h THEN h[k] ELSE <<>>
    IN [k \in DOMAIN h \cup {CanonicalKey(x) : x \in {y \in DOMAIN src : src[y] # <<>>}} |->
            old(k) \o added(k)]

\* the times on the clock when a call is made, in seconds
Clock == {0, 5}

\* parseRetryAfter, called at the time now; durations are counted in seconds
parseRetryAfter(headers, now) ==
    IF headers = Nil THEN Nil
    ELSE LET val == Get(headers[1], "Retry-After")
         IN IF val = <<>> THEN Nil
            ELSE IF Atoi(val).ok THEN Ptr(WrapDuration(Atoi(val).n))
            ELSE IF ParseTime(val).ok THEN Ptr(Until(ParseTime(val).t, now))
            ELSE Nil

\* mutant: every status from 400 on that has no variant is a ServerError
errorVariant_From400(status) ==
    CASE status = 400 -> "BadRequestError"
      [] status = 401 -> "AuthenticationError"
      [] status = 402 -> "InsufficientCreditsError"
      [] status = 403 -> "ForbiddenError"
      [] status = 404 -> "NotFoundError"
      [] status = 429 -> "RateLimitError"
      [] OTHER -> IF status >= 400 THEN "ServerError" ELSE "APIError"

\* the switch of apiErrorFromResponse
errorVariant(status) ==
    CASE status = 400 -> "BadRequestError"
      [] status = 401 -> "AuthenticationError"
      [] status = 402 -> "InsufficientCreditsError"
      [] status = 403 -> "ForbiddenError"
      [] status = 404 -> "NotFoundError"
      [] status = 429 -> "RateLimitError"
      [] OTHER -> IF status >= 500 THEN "ServerError" ELSE "APIError"

\* apiErrorFromResponse with the headers of the response: the typed error, its
\* embedded APIError and, for a RateLimitError, its RetryAfter
typedAPIError(status, headers, requestIDHeader, now) ==
    [variant |-> errorVariant(status),
     StatusCode |-> status,
     RequestID |-> IF headers # Nil /\ requestIDHeader # ""
                   THEN Get(headers[1], requestIDHeader) ELSE <<>>,
     RetryAfter |-> IF status = 429 THEN parseRetryAfter(headers, now) ELSE Nil]

----------------------------------------------------------------------------
(* httpClient.doRequest *)

\* a nil *http.Response
NoResp == [status |-> 0]

\* no body returned
NoBody == <<>>

\* the body bytes of the response received on attempt number at
RespBody(status, at) == <<at, status>>

\* mutant: MaxRetries is taken as the number of attempts
maxAttempts_Short == cfg.MaxRetries

maxAttempts == cfg.MaxRetries + 1

apiErrorFromResponse(status, at) ==
    Err("api",
        CASE status = 400 -> "BadRequestError"
          [] status = 401 -> "AuthenticationError"
          [] status = 402 -> "InsufficientCreditsError"
          [] status = 403 -> "ForbiddenError"
          [] status = 404 -> "NotFoundError"
          [] status = 429 -> "RateLimitError"
          [] OTHER -> IF status >= 500 THEN "ServerError" ELSE "APIError",
        status, at)

\* mutant: the attempt budget is tested with > instead of >=
shouldRetry_OffByOne(resp, err, att) ==
    IF att > cfg.MaxRetries THEN FALSE
    ELSE IF err # NilErr THEN err.name \notin {"Canceled", "DeadlineExceeded"}
    ELSE IF resp = NoResp THEN FALSE
    ELSE IF resp.status >= 500 THEN TRUE
    ELSE resp.status \in {408, 429}

\* mutant: every 4xx status is retried as well
shouldRetry_All4xx(resp, err, att) ==
    IF att >= cfg.MaxRetries THEN FALSE
    ELSE IF err # NilErr THEN err.name \notin {"Canceled", "DeadlineExceeded"}
    ELSE IF resp = NoResp THEN FALSE
    ELSE resp.status >= 400

\* mutant: cancellation and deadline errors are retried like any transport error
shouldRetry_RetryCtxErr(resp, err, att) ==
    IF att >= cfg.MaxRetries THEN FALSE
    ELSE IF err # NilErr THEN TRUE
    ELSE IF resp = NoResp THEN FALSE
    ELSE IF resp.status >= 500 THEN TRUE
    ELSE resp.status \in {408, 429}

shouldRetry(resp, err, att) ==
    IF att >= cfg.MaxRetries THEN FALSE
    ELSE IF err # NilErr THEN err.name \notin {"Canceled", "DeadlineExceeded"}
    ELSE IF resp = NoResp THEN FALSE
    ELSE IF resp.status >= 500 THEN TRUE
    ELSE resp.status \in {408, 429}

\* doRequest returns (body, err)
Return(body, err) ==
    /\ pc' = "done"
    /\ ret' = [body |-> body, err |-> err]

\* strings.ToLower, for the letters of the model
LowerChar(c) ==
    CASE c = "B" -> "b" [] c = "E" -> "e" [] c = "A" -> "a" [] c = "R" -> "r"
      [] OTHER -> c

ToLower(str) == [i \in DOMAIN str |-> LowerChar(str[i])]

\* strings.HasPrefix
HasPrefix(str, prefix) ==
    /\ Len(str) >= Len(prefix)
    /\ SubSeq(str, 1, Len(prefix)) = prefix

\* strings.TrimSpace
RECURSIVE TrimSpace(_)
TrimSpace(str) ==
    IF str = <<>> THEN str
    ELSE IF Head(str) = " " THEN TrimSpace(Tail(str))
    ELSE IF str[Len(str)] = " " THEN TrimSpace(SubSeq(str, 1, Len(str) - 1))
    ELSE str

\* "Bearer " and "bearer "
BearerSpace == <<"B", "e", "a", "r", "e", "r", " ">>
LowerBearerSpace == ToLower(BearerSpace)

\* userAgent
userAgent == <<"r", "o", "e">>

\* Auth.Headers (auth.go)
Headers(APIKey) ==
    LET key == IF HasPrefix(ToLower(APIKey), LowerBearerSpace)
               THEN TrimSpace(SubSeq(APIKey, 8, Len(APIKey)))
               ELSE APIKey
    IN [k \in {"Authorization", "User-Agent"} |->
            IF k = "Authorization" THEN <<BearerSpace \o key>> ELSE <<userAgent>>]

\* mutant: the extra and per-call headers replace those of the same name
applyHeaders_Set(auth, ExtraHeaders, headers) ==
    LET over(h, src) == [k \in DOMAIN h \cup DOMAIN AddAll(EmptyMap, src) |->
                            IF k \in DOMAIN AddAll(EmptyMap, src)
                            THEN AddAll(EmptyMap, src)[k] ELSE h[k]]
    IN over(over(AddAll(EmptyMap, auth), ExtraHeaders), headers)

\* applyHeaders: req.Header, empty on a new request, after the call
applyHeaders(auth, ExtraHeaders, headers) ==
    AddAll(AddAll(AddAll(EmptyMap, auth), ExtraHeaders), headers)

\* mutant: auto-generation is looked at before the default request id
attachRequestID_AutoFirst(h, c, generated) ==
    IF c.RequestIDHeader = "" THEN h
    ELSE IF Get(h, c.RequestIDHeader) # <<>> THEN h
    ELSE IF c.AutoRequestID THEN Set(h, c.RequestIDHeader, generated)
    ELSE IF c.DefaultRequestID # <<>> THEN Set(h, c.RequestIDHeader, c.DefaultRequestID)
    ELSE h

\* attachRequestID: req.Header after the call, generated being what
\* generateRequestID returns if it is called
attachRequestID(h, c, generated) ==
    IF c.RequestIDHeader = "" THEN h
    ELSE IF Get(h, c.RequestIDHeader) # <<>> THEN h
    ELSE IF c.DefaultRequestID # <<>> THEN Set(h, c.RequestIDHeader, c.DefaultRequestID)
    ELSE IF c.AutoRequestID THEN Set(h, c.RequestIDHeader, generated)
    ELSE h

\* the ids generateRequestID can return: "roe-" and the hexadecimal digits
\* of random bytes
GeneratedIDs == {<<"r", "o", "e", "-", x>> : x \in {"0", "f"}}

\* strings.ToLower of a header name
LowerName(name) ==
    CASE name \in {"Authorization", "authorization"} -> "authorization"
      [] name \in {"X-Request-Id", "X-Request-ID", "x-request-id"} -> "x-request-id"
      [] name = "User-Agent" -> "user-agent"
      [] name = "X-API-Key" -> "x-api-key"
      [] OTHER -> name

\* newHTTPClient: the redaction map, keyed by the lower-cased names
redactions(RedactHeaders) == {LowerName(h) : h \in RedactHeaders}

\* the placeholder of a redacted value
Redacted == <<"[", "redacted", "]">>

\* Header maps are reached through references: a heap gives the map behind
\* each reference.  cloneHeaders: a new map dst holding copies of the value
\* lists of src
cloneHeaders(heap, src, dst) == Put(heap, dst, heap[src])

\* cloned.Set(k, "[redacted]") for every key of the map behind ref whose
\* lower-cased name is in redactMap
RedactAll(heap, ref, redactMap) ==
    Put(heap, ref,
        [k \in DOMAIN heap[ref] |->
            IF LowerName(k) \in redactMap THEN <<Redacted>> ELSE heap[ref][k]])

\* mutant: the values are replaced in the map of the request itself
redactedHeaders_InPlace(heap, h, redactMap) ==
    IF redactMap = {} THEN [heap |-> heap, ref |-> h]
    ELSE [heap |-> RedactAll(heap, h, redactMap), ref |-> h]

\* redactedHeaders: the heap after the call and the reference returned
redactedHeaders(heap, h, redactMap) ==
    IF redactMap = {} THEN [heap |-> heap, ref |-> h]
    ELSE [heap |-> RedactAll(cloneHeaders(heap, h, "cloned"), "cloned", redactMap),
          ref |-> "cloned"]

\* logRequest for a request whose headers are behind the reference req: the
\* heap after the call and the headers printed, if any
logRequest(heap, req, c) ==
    IF ~c.logger \/ ~c.Debug THEN [heap |-> heap, logged |-> Nil]
    ELSE LET shown == redactedHeaders(heap, req, redactions(c.RedactHeaders))
         IN [heap |-> shown.heap, logged |-> Ptr(shown.heap[shown.ref])]

\* backoffDuration counts in quarters of a millisecond
Millisecond == 4

\* the smallest and the largest Duration
MinDuration == 0 - 2 ^ (DurationBits - 1)
MaxDuration == 2 ^ (DurationBits - 1) - 1

\* float64(RetryInitialInterval) * math.Pow(RetryMultiplier, attempt) for a
\* whole multiplier; the products are exact up to Huge, beyond every Duration,
\* where the model stops multiplying
Huge == 2 ^ (DurationBits + 2)

RECURSIVE Grow(_, _, _)
Grow(x, multiplier, n) ==
    IF n = 0 THEN x
    ELSE LET y == multiplier * Grow(x, multiplier, n - 1)
         IN IF y > Huge THEN Huge ELSE y

\* the quotient with its fraction dropped, as a conversion to an integer drops it
TruncDiv(x, n) == IF x >= 0 THEN x \div n ELSE 0 - ((0 - x) \div n)

\* time.Duration(f) for a float f with no fraction: the values the conversion
\* can give.  Go leaves the conversion of a value that no int64 holds to the
\* implementation: amd64 gives the smallest int64, arm64 the nearest int64
ToDuration(f) ==
    IF f > MaxDuration THEN {MinDuration, MaxDuration}
    ELSE IF f < MinDuration THEN {MinDuration}
    ELSE {f}

\* mrand.Float64(), in quarters
Float64Quarters == 0 .. 3

\* backoffDuration(attempt) under the configuration c, RetryJitter being
\* given in quarters: the delays it can return
backoffDuration(c, n) ==
    LET scaled      == ToDuration(Grow(c.RetryInitialInterval, c.RetryMultiplier, n))
        capped(d)   == IF d > c.RetryMaxInterval THEN c.RetryMaxInterval ELSE d
        \* jitterFactor = 1 + (r*2 - 1) * RetryJitter, in sixteenths
        jitterFactor(r) == 16 + (2 * r - 4) * c.RetryJitter
        jittered(d) == IF c.RetryJitter > 0
                       THEN UNION {ToDuration(TruncDiv(d * jitterFactor(r), 16)) :
                                      r \in Float64Quarters}
                       ELSE {d}
        floored(d)  == IF d < Millisecond THEN Millisecond ELSE d
    IN {floored(e) : e \in UNION {jittered(capped(d)) : d \in scaled}}

\* the delays backoffDuration returns to doRequest in the model, in seconds
Backoffs == {1, 20}

\* the headers of a response that is retried: without a Retry-After, and with
\* one that is zero, negative, positive, no number, a date to come, a date
\* gone by, and a number of seconds no Duration holds
RetryHeaders ==
    {EmptyMap} \cup
    {[k \in {"Retry-After"} |-> <<v>>] :
        v \in {<<"0">>, <<"-", "9">>, <<"9">>, <<"x">>, <<"D", "9">>, <<"D", "0">>,
               <<"4", "0", "0", "0", "0">>}}

\* mutant: a Retry-After always replaces the backoff
retryDelay_NoMax(resp, backoff, now) ==
    IF resp = Nil THEN backoff
    ELSE LET retryAfter == parseRetryAfter(resp, now)
         IN IF retryAfter = Nil \/ retryAfter[1] <= 0 THEN backoff
            ELSE retryAfter[1]

\* retryDelay, with the delay backoffDuration returned
retryDelay(resp, backoff, now) ==
    IF resp = Nil THEN backoff
    ELSE LET retryAfter == parseRetryAfter(resp, now)
         IN IF retryAfter = Nil \/ retryAfter[1] <= 0 THEN backoff
            ELSE IF retryAfter[1] > backoff THEN retryAfter[1]
            ELSE backoff

\* a sleep before a retry: what it followed, the headers of the response if
\* any, the backoff computed, the time of the computation, and its length
Sleep(after, header, backoff, now, delay) ==
    [after |-> after, header |-> header, backoff |-> backoff, now |-> now, delay |-> delay]

NoSleep == Sleep("none", EmptyMap, 0, 0, 0)

\* the hook lists of the configurations: a hook either returns or panics
HookSettings ==
    {[BeforeRequest |-> <<>>, AfterResponse |-> <<>>],
     [BeforeRequest |-> <<"returns", "panics", "returns">>, AfterResponse |-> <<"panics">>],
     [BeforeRequest |-> <<"panics", "panics">>, AfterResponse |-> <<"returns", "panics", "returns">>]}

\* the hooks before the first that panics, and that one
RECURSIVE UpToPanic(_, _)
UpToPanic(hooks, i) ==
    IF i > Len(hooks) THEN <<>>
    ELSE IF hooks[i] = "panics" THEN <<i>>
    ELSE <<i>> \o UpToPanic(hooks, i + 1)

\* mutant: the hooks are called without the deferred recover
runHooks_NoRecover(hooks) ==
    [invoked |-> UpToPanic(hooks, 1),
     escaped |-> \E i \in DOMAIN hooks : hooks[i] = "panics"]

\* runRequestHooks and runResponseHooks: each hook is called in a function of
\* its own whose deferred recover ends a panic, so the loop goes through the
\* list; the hooks called, in order, and whether a panic left the loop
runHooks(hooks) ==
    [invoked |-> [i \in DOMAIN hooks |-> i], escaped |-> FALSE]

\* no run of a hook list
NotRun == Nil

\* the runs of the two lists so far, and the hooks called in the last run of each
NoHooksRun == [requests |-> 0, responses |-> 0, before |-> <<>>, after |-> <<>>]

HooksRun(before, after) ==
    [requests  |-> hooked.requests + 1,
     responses |-> IF after = NotRun THEN hooked.responses ELSE hooked.responses + 1,
     before    |-> before[1].invoked,
     after     |-> IF after = NotRun THEN hooked.after ELSE after[1].invoked]

\* lines 242-252: the bytes of the request body, read once: none without a
\* body, what a *bytes.Buffer holds, or all that the reader gives
readBody(body) == IF body.kind = "nil" THEN Nil ELSE Ptr(body.data)

\* mutant: every attempt reads the body the caller passed, which the first
\* attempt leaves at its end
requestOf_SharedReader(att, generated) ==
    [method |-> args.method,
     url    |-> args.url,
     body   |-> IF att = 0 \/ bodyBytes = Nil THEN bodyBytes ELSE Ptr(<<>>),
     Header |-> attachRequestID(
                    applyHeaders(Headers(cfg.APIKey), cfg.ExtraHeaders, args.headers),
                    cfg, generated)]

\* mutant: the request of the attempt before is used again, and the headers
\* are added to those it has
requestOf_SameRequest(att, generated) ==
    [method |-> args.method,
     url    |-> args.url,
     body   |-> bodyBytes,
     Header |-> attachRequestID(
                    AddAll(IF wire = <<>> THEN EmptyMap ELSE wire[Len(wire)].Header,
                           applyHeaders(Headers(cfg.APIKey), cfg.ExtraHeaders, args.headers)),
                    cfg, generated)]

\* lines 262-273: the request of an attempt: a new request with a reader at
\* the start of bodyBytes, then applyHeaders and attachRequestID
requestOf(att, generated) ==
    [method |-> args.method,
     url    |-> args.url,
     body   |-> bodyBytes,
     Header |-> attachRequestID(
                    applyHeaders(Headers(cfg.APIKey), cfg.ExtraHeaders, args.headers),
                    cfg, generated)]

Call(errName, status, readOK) == [err |-> errName, status |-> status, readOK |-> readOK]

\* lines 233-255: default context, buildURL, reading the request body once
DoRequestEntry ==
    /\ pc = "entry"
    /\ \E early \in {"ok", "buildURL", "read request body"} :
         /\ early = "read request body" => args.body.kind = "Reader"
         /\ IF early = "ok"
            THEN /\ pc' = "loop"
                 /\ attempt' = 0
                 /\ lastErr' = NilErr
                 /\ bodyBytes' = readBody(args.body)
                 /\ UNCHANGED ret
            ELSE /\ Return(NoBody, Err("local", early, 0, 0))
                 /\ UNCHANGED <<attempt, lastErr, bodyBytes>>
    /\ UNCHANGED <<cfg, args, wire, slept, hooked, ctxErr, calls, ctxDoneAt>>
    /\ HTTPFrame

\* mutant: the loop-top context check is missing; the attempt is sent and
\* c.client.Do fails on the done context
AttemptCtxDone_NoCheck ==
    /\ pc = "loop"
    /\ attempt < maxAttempts
    /\ ctxErr # "nil"
    /\ calls' = Append(calls, Call(ctxErr, 0, FALSE))
    /\ Return(NoBody, TransportError(ctxErr, attempt + 1))
    /\ UNCHANGED <<cfg, args, bodyBytes, wire, slept, hooked, ctxErr, attempt, lastErr, ctxDoneAt>>
    /\ HTTPFrame

\* lines 257-260: the context is done when the attempt is about to start
AttemptCtxDone ==
    /\ pc = "loop"
    /\ attempt < maxAttempts
    /\ ctxErr # "nil"
    /\ Return(NoBody, CtxError(ctxErr))
    /\ UNCHANGED <<cfg, args, bodyBytes, wire, slept, hooked, ctxErr, attempt, lastErr, calls, ctxDoneAt>>
    /\ HTTPFrame

\* lines 267-270: http.NewRequestWithContext rejects the method or URL; the
\* inputs are the same on every attempt, so this can only happen on the first
AttemptNewRequestErr ==
    /\ pc = "loop"
    /\ attempt < maxAttempts
    /\ ctxErr = "nil"
    /\ attempt = 0
    /\ Return(NoBody, Err("local", "new request", 0, 0))
    /\ UNCHANGED <<cfg, args, bodyBytes, wire, slept, hooked, ctxErr, attempt, lastErr, calls, ctxDoneAt>>
    /\ HTTPFrame

\* lines 278-291: c.client.Do fails at the transport level.  A "Canceled"
\* failure means the context was cancelled during the call; a
\* "DeadlineExceeded" one is the context's deadline or the client's own timeout.
AttemptTransportError ==
    /\ pc = "loop"
    /\ attempt < maxAttempts
    /\ ctxErr = "nil"
    /\ LET before == runHooks(cfg.BeforeRequest) IN
       IF before.escaped
       THEN /\ pc' = "panicked"
            /\ hooked' = HooksRun(Ptr(before), NotRun)
            /\ UNCHANGED <<ctxErr, attempt, lastErr, calls, ret, ctxDoneAt, slept, wire>>
       ELSE
       /\ hooked' = HooksRun(Ptr(before), NotRun)
       /\ \E generated \in GeneratedIDs : wire' = Append(wire, requestOf(attempt, generated))
       /\ \E name \in TransportErrNames, ctxAfter \in {"nil", "Canceled", "DeadlineExceeded"} :
         /\ name = "net" => ctxAfter = "nil"
         /\ name = "Canceled" => ctxAfter = "Canceled"
         /\ name = "DeadlineExceeded" => ctxAfter \in {"nil", "DeadlineExceeded"}
         /\ ctxErr' = ctxAfter
         /\ calls' = Append(calls, Call(name, 0, FALSE))
         /\ ctxDoneAt' = IF ctxAfter = "nil" THEN ctxDoneAt
                         ELSE [pc |-> "call", calls |-> Len(calls) + 1]
         /\ LET err == TransportError(name, attempt + 1) IN
              IF ~shouldRetry(NoResp, err, attempt)
              THEN /\ Return(NoBody, err)
                   /\ UNCHANGED <<attempt, lastErr, slept>>
              ELSE /\ lastErr' = err
                   /\ pc' = "sleep"
                   /\ \E backoff \in Backoffs :
                        slept' = Sleep("error", EmptyMap, backoff, 0, backoff)
                   /\ UNCHANGED <<attempt, ret>>
    /\ UNCHANGED <<cfg, args, bodyBytes>>
    /\ HTTPFrame

\* lines 278-317: c.client.Do returns a response
AttemptResponse ==
    /\ pc = "loop"
    /\ attempt < maxAttempts
    /\ ctxErr = "nil"
    /\ LET before == runHooks(cfg.BeforeRequest)
           after  == runHooks(cfg.AfterResponse)
       IN
       IF before.escaped
       THEN /\ pc' = "panicked"
            /\ hooked' = HooksRun(Ptr(before), NotRun)
            /\ UNCHANGED <<attempt, lastErr, calls, ret, slept, wire>>
       ELSE
       \E status \in Statuses, readOK \in BOOLEAN, generated \in GeneratedIDs :
         /\ wire' = Append(wire, requestOf(attempt, generated))
         /\ calls' = Append(calls, Call("nil", status, readOK))
         /\ hooked' = HooksRun(Ptr(before), IF readOK THEN Ptr(after) ELSE NotRun)
         /\ IF ~readOK
            THEN /\ Return(NoBody, Err("local", "read response", 0, attempt + 1))
                 /\ UNCHANGED <<attempt, lastErr, slept>>
            ELSE IF after.escaped
            THEN /\ pc' = "panicked"
                 /\ UNCHANGED <<attempt, lastErr, ret, slept>>
            ELSE IF status >= 200 /\ status < 300
            THEN /\ Return(RespBody(status, attempt + 1), NilErr)
                 /\ UNCHANGED <<attempt, lastErr, slept>>
            ELSE LET apiErr == apiErrorFromResponse(status, attempt + 1) IN
                 /\ lastErr' = apiErr
                 /\ IF shouldRetry([status |-> status], NilErr, attempt)
                    THEN /\ pc' = "sleep"
                         /\ \E backoff \in Backoffs, header \in RetryHeaders, now \in Clock :
                              slept' = Sleep("response", header, backoff, now,
                                             retryDelay(Ptr(header), backoff, now))
                         /\ UNCHANGED <<attempt, ret>>
                    ELSE /\ Return(NoBody, apiErr)
                         /\ UNCHANGED <<attempt, slept>>
    /\ UNCHANGED <<cfg, args, bodyBytes, ctxErr, ctxDoneAt>>
    /\ HTTPFrame

\* line 320: the loop ends without an attempt having returned
LoopExit ==
    /\ pc = "loop"
    /\ attempt >= maxAttempts
    /\ Return(NoBody, lastErr)
    /\ UNCHANGED <<cfg, args, bodyBytes, wire, slept, hooked, ctxErr, attempt, lastErr, calls, ctxDoneAt>>
    /\ HTTPFrame

\* sleepWithContext, case <-timer.C: the delay (backoffDuration, at least 1ms)
\* has elapsed; the loop continues with attempt++
SleepTimer ==
    /\ pc = "sleep"
    /\ pc' = "loop"
    /\ attempt' = attempt + 1
    /\ UNCHANGED <<cfg, args, bodyBytes, wire, slept, hooked, ctxErr, lastErr, calls, ret, ctxDoneAt>>
    /\ HTTPFrame

\* mutant: the error of the cancelled sleep is dropped and the next attempt is
\* sent; c.client.Do then fails on the cancelled context
SleepCtxDone_Ignored ==
    /\ pc = "sleep"
    /\ ctxErr # "nil"
    /\ calls' = Append(calls, Call(ctxErr, 0, FALSE))
    /\ Return(NoBody, TransportError(ctxErr, attempt + 2))
    /\ UNCHANGED <<cfg, args, bodyBytes, wire, slept, hooked, ctxErr, attempt, lastErr, ctxDoneAt>>
    /\ HTTPFrame

\* sleepWithContext, case <-ctx.Done(): doRequest returns ctx.Err()
SleepCtxDone ==
    /\ pc = "sleep"
    /\ ctxErr # "nil"
    /\ Return(NoBody, CtxError(ctxErr))
    /\ UNCHANGED <<cfg, args, bodyBytes, wire, slept, hooked, ctxErr, attempt, lastErr, calls, ctxDoneAt>>
    /\ HTTPFrame

\* the caller cancels the context, or its deadline passes, while doRequest runs
HTTPCancel ==
    /\ pc \in {"loop", "sleep"}
    /\ ctxErr = "nil"
    /\ \E name \in {"Canceled", "DeadlineExceeded"} : ctxErr' = name
    /\ ctxDoneAt' = [pc |-> pc, calls |-> Len(calls)]
    /\ UNCHANGED <<cfg, args, bodyBytes, wire, slept, hooked, pc, attempt, lastErr, calls, ret>>
    /\ HTTPFrame

\* the Config of a client with the given retry budget, hooks and header
\* settings
ConfigOf(retries, hooks, settings) ==
    [MaxRetries |-> retries,
     BeforeRequest |-> hooks.BeforeRequest,
     AfterResponse |-> hooks.AfterResponse,
     APIKey |-> settings.APIKey,
     ExtraHeaders |-> settings.ExtraHeaders,
     RequestIDHeader |-> settings.RequestIDHeader,
     DefaultRequestID |-> settings.DefaultRequestID,
     AutoRequestID |-> settings.AutoRequestID]

\* a client that adds no header of its own and no request id
PlainSettings ==
    [APIKey |-> <<"k">>, ExtraHeaders |-> EmptyMap, RequestIDHeader |-> "X-Request-ID",
     DefaultRequestID |-> <<>>, AutoRequestID |-> FALSE]

\* a POST of two bytes read from a reader, without headers of its own
PlainArgs ==
    [method |-> "POST", url |-> "/v1/agents/", headers |-> EmptyMap,
     body |-> [kind |-> "Reader", data |-> <<"x", "y">>]]

\* a client with one of the given configurations, and a call of doRequest
\* with one of the given arguments
HTTPInitFor(configs, arguments) ==
    /\ cfg \in configs
    /\ args \in arguments
    /\ ctxErr \in {"nil", "Canceled", "DeadlineExceeded"}
    /\ pc = "entry"
    /\ attempt = 0
    /\ lastErr = NilErr
    /\ calls = <<>>
    /\ ret = [body |-> NoBody, err |-> NilErr]
    /\ ctxDoneAt = [pc |-> IF ctxErr = "nil" THEN "never" ELSE "entry", calls |-> 0]
    /\ slept = NoSleep
    /\ hooked = NoHooksRun
    /\ bodyBytes = Nil
    /\ wire = <<>>

HTTPInit ==
    /\ \E retries \in -1 .. MaxRetriesBound, hooks \in HookSettings :
          cfg = ConfigOf(retries, hooks, PlainSettings)
    /\ args = PlainArgs
    /\ bodyBytes = Nil
    /\ wire = <<>>
    /\ ctxErr \in {"nil", "Canceled", "DeadlineExceeded"}
    /\ pc = "entry"
    /\ attempt = 0
    /\ lastErr = NilErr
    /\ calls = <<>>
    /\ ret = [body |-> NoBody, err |-> NilErr]
    /\ ctxDoneAt = [pc |-> IF ctxErr = "nil" THEN "never" ELSE "entry", calls |-> 0]
    /\ slept = NoSleep
    /\ hooked = NoHooksRun

HTTPIdle ==
    /\ cfg = ConfigOf(0, [BeforeRequest |-> <<>>, AfterResponse |-> <<>>], PlainSettings)
    /\ args = PlainArgs
    /\ bodyBytes = Nil
    /\ wire = <<>>
    /\ ctxErr = "nil"
    /\ pc = "idle"
    /\ attempt = 0
    /\ lastErr = NilErr
    /\ calls = <<>>
    /\ ret = [body |-> NoBody, err |-> NilErr]
    /\ ctxDoneAt = [pc |-> "never", calls |-> 0]
    /\ slept = NoSleep
    /\ hooked = NoHooksRun

HTTPNext ==
    \/ DoRequestEntry
    \/ AttemptCtxDone
    \/ AttemptNewRequestErr
    \/ AttemptTransportError
    \/ AttemptResponse
    \/ LoopExit
    \/ SleepTimer
    \/ SleepCtxDone
    \/ HTTPCancel


----------------------------------------------------------------------------
(* Two calls of doRequest on one client *)

\* the locals of the call of doRequest that is running
Locals ==
    [ctxErr |-> ctxErr, pc |-> pc, attempt |-> attempt, lastErr |-> lastErr,
     calls |-> calls, ret |-> ret, ctxDoneAt |-> ctxDoneAt, slept |-> slept,
     hooked |-> hooked, args |-> args, bodyBytes |-> bodyBytes, wire |-> wire]

\* mutant: the attempt counter is a field of the client, which the two calls
\* share
Resume_SharedAttempt(call) ==
    /\ ctxErr' = call.ctxErr
    /\ pc' = call.pc
    /\ attempt' = attempt
    /\ lastErr' = call.lastErr
    /\ calls' = call.calls
    /\ ret' = call.ret
    /\ ctxDoneAt' = call.ctxDoneAt
    /\ slept' = call.slept
    /\ hooked' = call.hooked
    /\ args' = call.args
    /\ bodyBytes' = call.bodyBytes
    /\ wire' = call.wire

\* lines 232-321: the call goes on with the locals it had; all that
\* doRequest assigns is local to the call
Resume(call) ==
    /\ ctxErr' = call.ctxErr
    /\ pc' = call.pc
    /\ attempt' = call.attempt
    /\ lastErr' = call.lastErr
    /\ calls' = call.calls
    /\ ret' = call.ret
    /\ ctxDoneAt' = call.ctxDoneAt
    /\ slept' = call.slept
    /\ hooked' = call.hooked
    /\ args' = call.args
    /\ bodyBytes' = call.bodyBytes
    /\ wire' = call.wire

\* the scheduler lets the other of two calls on the client run
Switch ==
    /\ parked # Nil
    /\ parked' = Ptr(Locals)
    /\ running' = 3 - running
    /\ Resume(parked[1])
    /\ UNCHANGED cfg
    /\ UNCHANGED <<jobVars, batchVars, callVars, runVars, snapVars, raceVars>>

\* one call alone
PairIdle ==
    /\ parked = Nil
    /\ running = 1

\* the statuses the remote answers the two calls with
PairStatuses == {200, 404, 503}

\* the answers to the attempts of the call that runs are among PairStatuses
PairAnswers == \A i \in DOMAIN calls : calls[i].err # "nil" \/ calls[i].status \in PairStatuses

PairNext == (HTTPNext /\ PairAnswers') \/ Switch

----------------------------------------------------------------------------
(* JobStatus (types.go) *)

JobPending == 0
JobStarted == 1
JobRetry == 2
JobSuccess == 3
JobFailure == 4
JobCancelled == 5
JobCached == 6

\* a status value outside the enumeration (JobStatus is an int decoded from JSON)
JobUnknown == 7

JobStatuses == JobPending .. JobUnknown

\* mutant: failure is not counted as terminal
IsTerminal_NoFailure(s) == s = JobSuccess \/ s = JobCancelled \/ s = JobCached

IsTerminal(s) == s = JobSuccess \/ s = JobFailure \/ s = JobCancelled \/ s = JobCached

String(s) ==
    CASE s = JobPending -> "pending"
      [] s = JobStarted -> "started"
      [] s = JobRetry -> "retry"
      [] s = JobSuccess -> "success"
      [] s = JobFailure -> "failure"
      [] s = JobCancelled -> "cancelled"
      [] s = JobCached -> "cached"
      [] OTHER -> "unknown"

----------------------------------------------------------------------------
(* Job.WaitContext *)

\* job ids of the model
IDs == {"job-1", "job-2", "job-3"}

\* result payloads the remote can hold for a job
Payloads == {"out-A", "out-B"}

\* AgentJobResult{}
ZeroResult == "zero"

\* the error a status or result request ends with: the context's error when the
\* context is done as the request starts (doRequest, loop-top check), else an
\* error of the request itself
RequestErrors(c) ==
    IF c # "nil" THEN {CtxError(c)}
    ELSE {Err("api", "ServerError", 500, 1), TransportError("net", 1)}

JobReturn(result, err) ==
    /\ jpc' = "done"
    /\ jret' = [result |-> result, err |-> err]

\* the timeout newJob and newJobBatch store: 7200 * time.Second, or
\* time.Duration(timeoutSeconds) * time.Second when timeoutSeconds > 0
newJobTimeout(timeoutSeconds) ==
    IF timeoutSeconds > 0 THEN WrapDuration(timeoutSeconds) ELSE WrapDuration(7200)

\* the timeoutSeconds a job is created with: unset, negative, small, and two
\* values whose product with time.Second no longer fits the Duration
TimeoutSeconds == {-1, 0, 3, 2 ^ (DurationBits - 1), 2 ^ DurationBits}

\* the timeout arguments of a wait
WaitTimeoutArgs == {-1, 0, 2}

\* lines 44-46 and 168-170: the timeout a wait uses
effectiveTimeout(timeout, configured) == IF timeout <= 0 THEN configured ELSE timeout

\* lines 50-54 and 174-178: context.WithTimeout is called only for a positive timeout
timerFor(timeout) == IF timeout > 0 THEN "armed" ELSE "off"

\* Err() of a context once a signal reaches it: the first error stays
ctxAfter(cur, name) == IF cur = "nil" THEN name ELSE cur

\* history of calls, kept to the last MaxPolls entries' worth: once MaxPolls
\* calls are recorded the newest replaces the last
Record(hist, e) ==
    IF Len(hist) < MaxPolls THEN Append(hist, e) ELSE [hist EXCEPT ![MaxPolls] = e]

\* lines 41-57: defaults, the derived timeout context, the ticker
JobWaitEntry ==
    /\ jpc = "entry"
    /\ jpc' = "check"
    /\ \E timeout \in WaitTimeoutArgs :
         jtimer' = timerFor(effectiveTimeout(timeout, jtimeout))
    /\ UNCHANGED <<jobID, agentsAPI, jctx, jstatus, statusCalls, resultCalls, jret, jtrace,
                   jtimeout, jcaller, jdoneAt>>
    /\ JobFrame

\* lines 60-64: the non-blocking context check at the top of an iteration
JobCheckCtx ==
    /\ jpc = "check"
    /\ IF jctx # "nil"
       THEN JobReturn(ZeroResult, JobErr("wait cancelled", jctx, {jobID}))
       ELSE /\ jpc' = "status"
            /\ UNCHANGED jret
    /\ UNCHANGED <<jobID, agentsAPI, jctx, jstatus, statusCalls, resultCalls, jtrace,
                   jtimeout, jcaller, jtimer, jdoneAt>>
    /\ JobFrame

\* lines 66-69 and 81-85 (entry): j.RetrieveStatusWithContext
JobRetrieveStatus ==
    /\ jpc = "status"
    /\ IF ~agentsAPI
       THEN /\ JobReturn(ZeroResult, Err("local", "agents API not set", 0, 0))
            /\ UNCHANGED <<jstatus, statusCalls, jtrace>>
       ELSE /\ jtrace' = IF Len(jtrace) < MaxPolls THEN Append(jtrace, "status") ELSE jtrace
            /\ \/ \E e \in RequestErrors(jctx) :
                    /\ statusCalls' = Record(statusCalls, [status |-> JobPending, err |-> e])
                    /\ JobReturn(ZeroResult, e)
                    /\ UNCHANGED jstatus
               \/ /\ jctx = "nil"
                  /\ \E st \in JobStatuses :
                       /\ statusCalls' = Record(statusCalls, [status |-> st, err |-> NilErr])
                       /\ jstatus' = st
                       /\ jpc' = IF IsTerminal(st) THEN "result" ELSE "tick"
                       /\ UNCHANGED jret
    /\ UNCHANGED <<jobID, agentsAPI, jctx, resultCalls, jtimeout, jcaller, jtimer, jdoneAt>>
    /\ JobFrame

\* mutant: the result of a failed or cancelled job is dropped
JobRetrieveResult_DropOnFailure ==
    /\ jpc = "result"
    /\ jtrace' = Append(jtrace, "result")
    /\ \/ \E e \in RequestErrors(jctx) :
            /\ resultCalls' = Append(resultCalls, [result |-> ZeroResult, err |-> e])
            /\ JobReturn(ZeroResult, e)
       \/ /\ jctx = "nil"
          /\ \E r \in Payloads :
               /\ resultCalls' = Append(resultCalls, [result |-> r, err |-> NilErr])
               /\ IF jstatus = JobFailure \/ jstatus = JobCancelled
                  THEN JobReturn(ZeroResult, JobErr("ended with status", String(jstatus), {jobID}))
                  ELSE JobReturn(r, NilErr)
    /\ UNCHANGED <<jobID, agentsAPI, jctx, jstatus, statusCalls, jtimeout, jcaller, jtimer, jdoneAt>>
    /\ JobFrame

\* lines 70-79: a terminal status was observed: j.RetrieveResultWithContext
JobRetrieveResult ==
    /\ jpc = "result"
    /\ jtrace' = Append(jtrace, "result")
    /\ \/ \E e \in RequestErrors(jctx) :
            /\ resultCalls' = Append(resultCalls, [result |-> ZeroResult, err |-> e])
            /\ JobReturn(ZeroResult, e)
       \/ /\ jctx = "nil"
          /\ \E r \in Payloads :
               /\ resultCalls' = Append(resultCalls, [result |-> r, err |-> NilErr])
               /\ IF jstatus = JobFailure \/ jstatus = JobCancelled
                  THEN JobReturn(r, JobErr("ended with status", String(jstatus), {jobID}))
                  ELSE JobReturn(r, NilErr)
    /\ UNCHANGED <<jobID, agentsAPI, jctx, jstatus, statusCalls, jtimeout, jcaller, jtimer, jdoneAt>>
    /\ JobFrame

\* lines 81-85, case <-ticker.C: the next poll iteration starts
JobTick ==
    /\ jpc = "tick"
    /\ jpc' = "check"
    /\ UNCHANGED <<jobID, agentsAPI, jctx, jstatus, statusCalls, resultCalls, jret, jtrace,
                   jtimeout, jcaller, jtimer, jdoneAt>>
    /\ JobFrame

\* lines 81-83, case <-ctx.Done()
JobTickCtxDone ==
    /\ jpc = "tick"
    /\ jctx # "nil"
    /\ JobReturn(ZeroResult, JobErr("wait cancelled", jctx, {jobID}))
    /\ UNCHANGED <<jobID, agentsAPI, jctx, jstatus, statusCalls, resultCalls, jtrace,
                   jtimeout, jcaller, jtimer, jdoneAt>>
    /\ JobFrame

\* mutant: the timeout context is derived from context.Background(), so the
\* caller's cancellation does not reach the wait while the timer is set
JobCallerCancel_Detached ==
    /\ jpc \in {"check", "status", "result", "tick"}
    /\ jcaller = "nil"
    /\ \E name \in {"Canceled", "DeadlineExceeded"} :
         /\ jcaller' = name
         /\ jctx' = IF jtimer = "off" THEN ctxAfter(jctx, name) ELSE jctx
    /\ jdoneAt' = IF jctx = "nil" /\ jtimer = "off" THEN jpc ELSE jdoneAt
    /\ UNCHANGED <<jobID, agentsAPI, jpc, jstatus, statusCalls, resultCalls, jret, jtrace,
                   jtimeout, jtimer>>
    /\ JobFrame

\* the caller cancels its context, or that context's own deadline passes; the
\* context the wait observes is that context or one derived from it (line 52)
JobCallerCancel ==
    /\ jpc \in {"check", "status", "result", "tick"}
    /\ jcaller = "nil"
    /\ \E name \in {"Canceled", "DeadlineExceeded"} :
         /\ jcaller' = name
         /\ jctx' = ctxAfter(jctx, name)
    /\ jdoneAt' = IF jctx = "nil" THEN jpc ELSE jdoneAt
    /\ UNCHANGED <<jobID, agentsAPI, jpc, jstatus, statusCalls, resultCalls, jret, jtrace,
                   jtimeout, jtimer>>
    /\ JobFrame

\* line 52: the deadline of context.WithTimeout passes
JobTimeout ==
    /\ jpc \in {"check", "status", "result", "tick"}
    /\ jtimer = "armed"
    /\ jtimer' = "fired"
    /\ jctx' = ctxAfter(jctx, "DeadlineExceeded")
    /\ jdoneAt' = IF jctx = "nil" THEN jpc ELSE jdoneAt
    /\ UNCHANGED <<jobID, agentsAPI, jpc, jstatus, statusCalls, resultCalls, jret, jtrace,
                   jtimeout, jcaller>>
    /\ JobFrame

\* a Job made by newJob, or the zero Job (no API, no timeout)
JobInit ==
    /\ jobID \in IDs
    /\ agentsAPI \in BOOLEAN
    /\ jtimeout \in IF agentsAPI THEN {newJobTimeout(secs) : secs \in TimeoutSeconds} ELSE {0}
    /\ jcaller \in {"nil", "Canceled", "DeadlineExceeded"}
    /\ jtimer = "unset"
    /\ jpc = "entry"
    /\ jctx = jcaller
    /\ jdoneAt = (IF jcaller = "nil" THEN "never" ELSE "entry")
    /\ jstatus = JobPending
    /\ statusCalls = <<>>
    /\ resultCalls = <<>>
    /\ jret = [result |-> ZeroResult, err |-> NilErr]
    /\ jtrace = <<>>

JobIdle ==
    /\ jobID = "job-1"
    /\ agentsAPI = TRUE
    /\ jtimeout = 0
    /\ jcaller = "nil"
    /\ jtimer = "unset"
    /\ jdoneAt = "never"
    /\ jpc = "idle"
    /\ jctx = "nil"
    /\ jstatus = JobPending
    /\ statusCalls = <<>>
    /\ resultCalls = <<>>
    /\ jret = [result |-> ZeroResult, err |-> NilErr]
    /\ jtrace = <<>>

JobNext ==
    \/ JobWaitEntry
    \/ JobCheckCtx
    \/ JobRetrieveStatus
    \/ JobRetrieveResult
    \/ JobTick
    \/ JobTickCtxDone
    \/ JobCallerCancel
    \/ JobTimeout

----------------------------------------------------------------------------
(* agents_api.go: chunking and the batch status/result calls *)

maxBatchSize == 1000

\* mutant: the items left over after the last full chunk are dropped
RECURSIVE chunkLoop_DropTail(_, _, _)
chunkLoop_DropTail(items, size, i) ==
    IF i + size > Len(items) THEN <<>>
    ELSE <<SubSeq(items, i + 1, i + size)>> \o chunkLoop_DropTail(items, size, i + size)

RECURSIVE chunkLoop(_, _, _)
chunkLoop(items, size, i) ==
    IF i >= Len(items) THEN <<>>
    ELSE LET end == IF i + size > Len(items) THEN Len(items) ELSE i + size
         IN <<SubSeq(items, i + 1, end)>> \o chunkLoop(items, size, end)

chunkStrings(items, size) ==
    IF size <= 0 \/ size >= Len(items) THEN <<items>>
    ELSE chunkLoop(items, size, 0)

chunkAny(items, size) ==
    IF size <= 0 \/ size >= Len(items) THEN <<items>>
    ELSE chunkLoop(items, size, 0)

\* the chunks the batch status and result calls send a request for
chunkRequests(ids, size) ==
    IF Len(ids) = 0 THEN <<>> ELSE chunkStrings(ids, size)

\* order[id]: the index the loop "for idx, id := range jobIDs" leaves in the map
orderOf(ids, id) == CHOOSE i \in DOMAIN ids : ids[i] = id /\ \A j \in DOMAIN ids : ids[j] = id => j <= i

\* the loop "for _, st := range resp": results[order[st.ID]] = st
RECURSIVE placeEntries(_, _, _)
placeEntries(results, ids, entries) ==
    IF entries = <<>> THEN results
    ELSE LET st == Head(entries)
             next == IF st.id \in SetOf(ids)
                     THEN [results EXCEPT ![orderOf(ids, st.id)] = st]
                     ELSE results
         IN placeEntries(next, ids, Tail(entries))

missingIDs(ids, entries) ==
    SelectSeq(ids, LAMBDA id : id \notin {entries[k].id : k \in DOMAIN entries})

StatusPlaceholder(id) == [id |-> id, Status |-> Nil]

\* RetrieveStatusManyWithContext once every chunk request has succeeded; resps
\* holds the response to each chunk, in order
RetrieveStatusMany(ids, resps) ==
    IF Len(ids) = 0 THEN [err |-> NilErr, val |-> <<>>]
    ELSE LET entries == Flatten(resps)
             results == placeEntries([i \in DOMAIN ids |-> StatusPlaceholder(ids[i])], ids, entries)
             missing == missingIDs(ids, entries)
         IN IF Len(missing) > 0
            THEN [err |-> JobErr("jobs not found in status response", "", SetOf(missing)), val |-> <<>>]
            ELSE [err |-> NilErr, val |-> results]

ResultPlaceholder(id) ==
    [id |-> id, AgentID |-> Nil, AgentVersionID |-> Nil,
     Result |-> [kind |-> "nil", items |-> <<>>], Corrected |-> <<>>]

\* mutant: the check for missing job ids is left out, the placeholders stay
RetrieveResultMany_NoMissingCheck(ids, resps) ==
    IF Len(ids) = 0 THEN [err |-> NilErr, val |-> <<>>]
    ELSE [err |-> NilErr,
          val |-> placeEntries([i \in DOMAIN ids |-> ResultPlaceholder(ids[i])], ids, Flatten(resps))]

\* RetrieveResultManyWithContext once every chunk request has succeeded
RetrieveResultMany(ids, resps) ==
    IF Len(ids) = 0 THEN [err |-> NilErr, val |-> <<>>]
    ELSE LET entries == Flatten(resps)
             results == placeEntries([i \in DOMAIN ids |-> ResultPlaceholder(ids[i])], ids, entries)
             missing == missingIDs(ids, entries)
         IN IF Len(missing) > 0
            THEN [err |-> JobErr("jobs not found in results response", "", SetOf(missing)), val |-> <<>>]
            ELSE [err |-> NilErr, val |-> results]

----------------------------------------------------------------------------
(* job.go: convertBatchResult, removeCompleted, mapKeys *)

\* an element of the remote "result" array; ok says whether it decodes as an AgentDatum
Elem(id, value, ok) == [key |-> id, value |-> value, ok |-> ok]

\* the AgentDatum an element decodes to (json.Marshal, then json.Unmarshal)
Datum(e) == [key |-> e.key, value |-> e.value]

RECURSIVE decodeItems(_, _)
decodeItems(items, i) ==
    IF i > Len(items) THEN [bad |-> 0, outputs |-> <<>>]
    ELSE IF ~items[i].ok THEN [bad |-> i, outputs |-> <<>>]
    ELSE LET rest == decodeItems(items, i + 1)
         IN [bad |-> rest.bad, outputs |-> <<Datum(items[i])>> \o rest.outputs]

\* *p: dereferencing a nil pointer panics
Deref(p) == IF p = Nil THEN "panic" ELSE p[1]

\* mutant: only an entry without both ids is turned down
convertBatchResult_BothMissing(res) ==
    IF res.AgentID = Nil /\ res.AgentVersionID = Nil
    THEN [err |-> JobErr("not found or deleted", "", {res.id}), val |-> ZeroResult]
    ELSE [err |-> NilErr,
          val |-> [AgentID |-> Deref(res.AgentID), AgentVersionID |-> Deref(res.AgentVersionID),
                   Outputs |-> <<>>]]

convertBatchResult(res) ==
    IF res.AgentID = Nil \/ res.AgentVersionID = Nil
    THEN [err |-> JobErr("not found or deleted", "", {res.id}), val |-> ZeroResult]
    ELSE LET dec == CASE res.Result.kind = "list" -> decodeItems(res.Result.items, 1)
                      [] res.Result.kind = "nil" -> [bad |-> 0, outputs |-> <<>>]
                      [] OTHER -> [bad |-> -1, outputs |-> <<>>]
             outputs == IF Len(dec.outputs) = 0 /\ Len(res.Corrected) > 0
                        THEN res.Corrected ELSE dec.outputs
         IN IF dec.bad > 0
            THEN [err |-> JobErr("unmarshal output", "", {res.id}), val |-> ZeroResult]
            ELSE IF dec.bad < 0
            THEN [err |-> JobErr("unmarshal result as []AgentDatum", "", {res.id}), val |-> ZeroResult]
            ELSE [err |-> NilErr,
                  val |-> [AgentID |-> Deref(res.AgentID),
                           AgentVersionID |-> Deref(res.AgentVersionID),
                           Outputs |-> outputs]]

\* mutant: only the first of the completed ids is removed
removeCompleted_First(pend, done) ==
    IF Len(done) = 0 THEN pend
    ELSE SelectSeq(pend, LAMBDA id : id # done[1])

removeCompleted(pend, done) ==
    IF Len(done) = 0 THEN pend
    ELSE SelectSeq(pend, LAMBDA id : id \notin SetOf(done))

mapKeys(m) == DOMAIN m

----------------------------------------------------------------------------
(* JobBatch.WaitContext *)

\* statuses the remote reports for a job of a batch: none in the entry (nil), a
\* non-terminal one, and terminal ones that end well, in failure, cancelled
BatchStatuses == {Nil, Ptr(JobStarted), Ptr(JobSuccess), Ptr(JobFailure), Ptr(JobCancelled)}

\* the result entries the remote can return for a job
ResultEntries(id) ==
    { [id |-> id, AgentID |-> Ptr("agent"), AgentVersionID |-> Ptr("version"),
       Result |-> [kind |-> "list", items |-> <<Elem(id, "output", TRUE)>>], Corrected |-> <<>>],
      [id |-> id, AgentID |-> Nil, AgentVersionID |-> Nil,
       Result |-> [kind |-> "nil", items |-> <<>>], Corrected |-> <<>>],
      [id |-> id, AgentID |-> Ptr("agent"), AgentVersionID |-> Ptr("version"),
       Result |-> [kind |-> "list", items |-> <<Elem(id, "output", FALSE)>>], Corrected |-> <<>>] }

\* an id the batch does not track
Stranger == "job-x"

\* with or without a leading entry e for an id that was not asked for
WithStranger(resps, e) == resps \cup {<<e>> \o r : r \in resps}

\* the responses the remote can give to a batch status request for the ids req:
\* entries for any subset of them, in any order, with any status, and possibly
\* an entry for an id that was not asked for
StatusResponses(req) ==
    WithStranger(
        UNION { { [i \in DOMAIN p |-> [id |-> p[i], Status |-> st[p[i]]]] :
                    p \in Perms(P), st \in [P -> BatchStatuses] } : P \in SUBSET SetOf(req) },
        [id |-> Stranger, Status |-> Ptr(JobFailure)])

\* the responses the remote can give to a batch result request for the ids req
ResultResponses(req) ==
    WithStranger(
        UNION { UNION { { [i \in DOMAIN p |-> e[p[i]]] : p \in Perms(P) } :
                    e \in { f \in [P -> UNION {ResultEntries(id) : id \in P}] :
                              \A id \in P : f[id] \in ResultEntries(id) } } :
                P \in SUBSET SetOf(req) },
        CHOOSE e \in ResultEntries(Stranger) : e.Result.kind = "list" /\ e.Result.items[1].ok)

BatchReturn(results, err) ==
    /\ bpc' = "done"
    /\ bret' = [results |-> results, err |-> err]

\* a nil result slice (a returned list xs is Ptr(xs))
NoResults == Nil

\* history: no request of the wait has returned an error
NoFailure == [err |-> NilErr, after |-> 0]

\* history: a request of the wait returned e (NilErr: it succeeded); kept are
\* the first error and the number of requests made after it
noteRequest(f, e) ==
    IF f.err # NilErr THEN [f EXCEPT !.after = @ + 1] ELSE [err |-> e, after |-> 0]

\* mutant: a request that failed is tried again at the next tick
BatchRequestFailed_Retry(e) ==
    /\ bpc' = "tick"
    /\ UNCHANGED bret

\* lines 194-196 and 210-212: if err != nil { return nil, err }
BatchRequestFailed(e) == BatchReturn(NoResults, e)

\* mutant: the results are emitted in the order the jobs completed
Assemble_ArrivalOrder(done, failed) ==
    LET have == SelectSeq(arrival, LAMBDA id : id \in DOMAIN done)
        results == [i \in DOMAIN have |-> done[have[i]]]
    IN IF Cardinality(DOMAIN failed) > 0
       THEN BatchReturn(Ptr(results), JobErr("one or more jobs failed or were cancelled", "", mapKeys(failed)))
       ELSE BatchReturn(Ptr(results), NilErr)

\* lines 247-258: the results in canonical order, and the aggregate error
Assemble(done, failed) ==
    LET have == SelectSeq(jobIDs, LAMBDA id : id \in DOMAIN done)
        results == [i \in DOMAIN have |-> done[have[i]]]
    IN IF Cardinality(DOMAIN failed) > 0
       THEN BatchReturn(Ptr(results), JobErr("one or more jobs failed or were cancelled", "", mapKeys(failed)))
       ELSE BatchReturn(Ptr(results), NilErr)

\* lines 165-186: defaults, the derived context, pending := copy of jobIDs
BatchWaitEntry ==
    /\ bpc = "entry"
    /\ \E timeout \in WaitTimeoutArgs :
         btimer' = timerFor(effectiveTimeout(timeout, btimeout))
    /\ pending' = jobIDs
    /\ failures' = EmptyMap
    /\ ready' = <<>>
    /\ IF Len(jobIDs) > 0
       THEN /\ bpc' = "check"
            /\ UNCHANGED bret
       ELSE Assemble(completed, EmptyMap)
    /\ UNCHANGED <<jobIDs, statuses, completed, bctx, reported, fetched, arrival, btimeout, bcaller, bdoneAt, bfailed>>
    /\ BatchFrame

\* mutant: the context check at the top of an iteration is missing
BatchCheckCtx_NoCheck ==
    /\ bpc = "check"
    /\ bpc' = "poll"
    /\ UNCHANGED <<jobIDs, statuses, completed, pending, failures, ready, bctx, bret,
                   reported, fetched, arrival, btimeout, bcaller, btimer, bdoneAt, bfailed>>
    /\ BatchFrame

\* lines 187-191: the non-blocking context check at the top of an iteration
BatchCheckCtx ==
    /\ bpc = "check"
    /\ IF bctx # "nil"
       THEN BatchReturn(NoResults, JobErr("job batch wait cancelled", bctx, {}))
       ELSE /\ bpc' = "poll"
            /\ UNCHANGED bret
    /\ UNCHANGED <<jobIDs, statuses, completed, pending, failures, ready, bctx, reported, fetched, arrival,
                   btimeout, bcaller, btimer, bdoneAt, bfailed>>
    /\ BatchFrame

\* mutant: a terminal status makes the id ready without being recorded
RECURSIVE scanStatuses_NoRecord(_, _, _, _)
scanStatuses_NoRecord(batch, i, st, rdy) ==
    IF i > Len(batch) THEN [statuses |-> st, ready |-> rdy]
    ELSE IF batch[i].Status = Nil THEN scanStatuses_NoRecord(batch, i + 1, st, rdy)
    ELSE IF IsTerminal(batch[i].Status[1])
    THEN scanStatuses_NoRecord(batch, i + 1, st, Append(rdy, batch[i].id))
    ELSE scanStatuses_NoRecord(batch, i + 1, Put(st, batch[i].id, batch[i].Status[1]), rdy)

\* the loop of lines 198-206 over statusBatch[i..]
RECURSIVE scanStatuses(_, _, _, _)
scanStatuses(batch, i, st, rdy) ==
    IF i > Len(batch) THEN [statuses |-> st, ready |-> rdy]
    ELSE IF batch[i].Status = Nil THEN scanStatuses(batch, i + 1, st, rdy)
    ELSE scanStatuses(batch, i + 1, Put(st, batch[i].id, batch[i].Status[1]),
                      IF IsTerminal(batch[i].Status[1]) THEN Append(rdy, batch[i].id) ELSE rdy)

\* history: the statuses a response reports for tracked ids
RECURSIVE noteReported(_, _, _)
noteReported(resp, i, rep) ==
    IF i > Len(resp) THEN rep
    ELSE noteReported(resp, i + 1,
                      IF resp[i].Status = Nil \/ resp[i].id \notin SetOf(jobIDs) THEN rep
                      ELSE Put(rep, resp[i].id, resp[i].Status[1]))

\* history: the result entries a response returns for tracked ids
RECURSIVE noteFetched(_, _, _)
noteFetched(resp, i, fet) ==
    IF i > Len(resp) THEN fet
    ELSE noteFetched(resp, i + 1,
                     IF resp[i].id \notin SetOf(jobIDs) THEN fet ELSE Put(fet, resp[i].id, resp[i]))

\* mutant: the maps of a JobBatch are behind a mutex, which a write under
\* way in another call holds
Unlocked_Mutex(other) == other # "writing"

\* lines 127-133: a JobBatch has no lock: a call that is about to write
\* b.statuses does so wherever another call on the batch is
Unlocked(other) == TRUE

\* lines 193-206: the batch status call and the scan of its entries
BatchPollStatus ==
    /\ bpc = "poll"
    /\ Unlocked(rpc)
    /\ \/ \E e \in RequestErrors(bctx) :
            /\ BatchRequestFailed(e)
            /\ bfailed' = noteRequest(bfailed, e)
            /\ UNCHANGED <<statuses, ready, reported>>
       \/ /\ bctx = "nil"
          /\ \E resp \in StatusResponses(pending) :
               LET got == RetrieveStatusMany(pending, <<resp>>) IN
               /\ reported' = noteReported(resp, 1, reported)
               /\ bfailed' = noteRequest(bfailed, got.err)
               /\ IF got.err # NilErr
                  THEN /\ BatchRequestFailed(got.err)
                       /\ UNCHANGED <<statuses, ready>>
                  ELSE LET scan == scanStatuses(got.val, 1, statuses, <<>>) IN
                       /\ statuses' = scan.statuses
                       /\ ready' = scan.ready
                       /\ bpc' = IF Len(scan.ready) > 0 THEN "fetch" ELSE "after"
                       /\ UNCHANGED bret
    /\ UNCHANGED <<jobIDs, completed, pending, failures, bctx, fetched, arrival,
                   btimeout, bcaller, btimer, bdoneAt>>
    /\ BatchFrame

\* mutant: only status failure is recorded as a failure, cancelled is not
RECURSIVE convertAll_FailureOnly(_, _, _, _, _)
convertAll_FailureOnly(batch, i, recv, done, failed) ==
    IF i > Len(batch) THEN [err |-> NilErr, received |-> recv, completed |-> done, failures |-> failed]
    ELSE LET conv == convertBatchResult(batch[i])
             id == batch[i].id
         IN IF conv.err # NilErr
            THEN [err |-> conv.err, received |-> recv, completed |-> done, failures |-> failed]
            ELSE convertAll_FailureOnly(batch, i + 1, recv \cup {id}, Put(done, id, conv.val),
                            IF id \in DOMAIN statuses /\ statuses[id] = JobFailure
                            THEN Put(failed, id, statuses[id]) ELSE failed)

\* the loop of lines 215-225 over resultsBatch[i..]
RECURSIVE convertAll(_, _, _, _, _)
convertAll(batch, i, recv, done, failed) ==
    IF i > Len(batch) THEN [err |-> NilErr, received |-> recv, completed |-> done, failures |-> failed]
    ELSE LET conv == convertBatchResult(batch[i])
             id == batch[i].id
         IN IF conv.err # NilErr
            THEN [err |-> conv.err, received |-> recv, completed |-> done, failures |-> failed]
            ELSE convertAll(batch, i + 1, recv \cup {id}, Put(done, id, conv.val),
                            IF id \in DOMAIN statuses
                               /\ (statuses[id] = JobFailure \/ statuses[id] = JobCancelled)
                            THEN Put(failed, id, statuses[id]) ELSE failed)

\* lines 208-234: the batch result call, conversion, and removal from pending
BatchFetchResults ==
    /\ bpc = "fetch"
    /\ \/ \E e \in RequestErrors(bctx) :
            /\ BatchRequestFailed(e)
            /\ bfailed' = noteRequest(bfailed, e)
            /\ UNCHANGED <<completed, pending, failures, fetched, arrival>>
       \/ /\ bctx = "nil"
          /\ \E resp \in ResultResponses(ready) :
               LET got == RetrieveResultMany(ready, <<resp>>) IN
               /\ fetched' = noteFetched(resp, 1, fetched)
               /\ arrival' = arrival \o SelectSeq([i \in DOMAIN resp |-> resp[i].id],
                                                  LAMBDA id : id \in SetOf(jobIDs))
               /\ bfailed' = noteRequest(bfailed, got.err)
               /\ IF got.err # NilErr
                  THEN /\ BatchRequestFailed(got.err)
                       /\ UNCHANGED <<completed, pending, failures>>
                  ELSE LET conv == convertAll(got.val, 1, {}, completed, failures)
                           lost == SelectSeq(ready, LAMBDA id : id \notin conv.received)
                       IN
                       /\ completed' = conv.completed
                       /\ failures' = conv.failures
                       /\ IF conv.err # NilErr
                          THEN /\ BatchReturn(NoResults, conv.err)
                               /\ UNCHANGED pending
                          ELSE IF Len(lost) > 0
                          THEN /\ BatchReturn(NoResults, JobErr("result missing in batch response", "", {lost[1]}))
                               /\ UNCHANGED pending
                          ELSE /\ pending' = removeCompleted(pending, ready)
                               /\ bpc' = "after"
                               /\ UNCHANGED bret
    /\ UNCHANGED <<jobIDs, statuses, ready, bctx, reported,
                   btimeout, bcaller, btimer, bdoneAt>>
    /\ BatchFrame

\* lines 236-238 and 247-258: pending is empty, the results are assembled
BatchFinish ==
    /\ bpc = "after"
    /\ Len(pending) = 0
    /\ Assemble(completed, failures)
    /\ UNCHANGED <<jobIDs, statuses, completed, pending, failures, ready, bctx, reported, fetched, arrival,
                   btimeout, bcaller, btimer, bdoneAt, bfailed>>
    /\ BatchFrame

\* lines 236-245: jobs are still pending, the wait sleeps until the next tick
BatchSleep ==
    /\ bpc = "after"
    /\ Len(pending) > 0
    /\ bpc' = "tick"
    /\ UNCHANGED <<jobIDs, statuses, completed, pending, failures, ready, bctx, bret, reported, fetched, arrival,
                   btimeout, bcaller, btimer, bdoneAt, bfailed>>
    /\ BatchFrame

\* lines 240-244, case <-ticker.C
BatchTick ==
    /\ bpc = "tick"
    /\ bpc' = "check"
    /\ UNCHANGED <<jobIDs, statuses, completed, pending, failures, ready, bctx, bret, reported, fetched, arrival,
                   btimeout, bcaller, btimer, bdoneAt, bfailed>>
    /\ BatchFrame

\* lines 240-242, case <-ctx.Done()
BatchTickCtxDone ==
    /\ bpc = "tick"
    /\ bctx # "nil"
    /\ BatchReturn(NoResults, JobErr("job batch wait cancelled", bctx, {}))
    /\ UNCHANGED <<jobIDs, statuses, completed, pending, failures, ready, bctx, reported, fetched, arrival,
                   btimeout, bcaller, btimer, bdoneAt, bfailed>>
    /\ BatchFrame

\* the caller cancels its context, or that context's own deadline passes; the
\* context the wait observes is that context or one derived from it (line 176)
BatchCallerCancel ==
    /\ bpc \in {"check", "poll", "fetch", "after", "tick"}
    /\ bcaller = "nil"
    /\ \E name \in {"Canceled", "DeadlineExceeded"} :
         /\ bcaller' = name
         /\ bctx' = ctxAfter(bctx, name)
    /\ bdoneAt' = IF bctx = "nil" THEN bpc ELSE bdoneAt
    /\ UNCHANGED <<jobIDs, statuses, completed, pending, failures, ready, bpc, bret,
                   reported, fetched, arrival, btimeout, btimer, bfailed>>
    /\ BatchFrame

\* line 176: the deadline of context.WithTimeout passes
BatchTimeout ==
    /\ bpc \in {"check", "poll", "fetch", "after", "tick"}
    /\ btimer = "armed"
    /\ btimer' = "fired"
    /\ bctx' = ctxAfter(bctx, "DeadlineExceeded")
    /\ bdoneAt' = IF bctx = "nil" THEN bpc ELSE bdoneAt
    /\ UNCHANGED <<jobIDs, statuses, completed, pending, failures, ready, bpc, bret,
                   reported, fetched, arrival, btimeout, bcaller, bfailed>>
    /\ BatchFrame

\* the lists of job ids a batch can track, up to renaming of the ids (the code
\* only compares ids): the first occurrences appear in the order of IDSeq.
\* Repeated ids are included: newJobBatch keeps the list it is given.
IDSeq == <<"job-1", "job-2", "job-3">>
IndexOfID(id) == CHOOSE k \in DOMAIN IDSeq : IDSeq[k] = id
JobIDLists ==
    { l \in SeqsUpTo(IDs, MaxJobs) :
        \A i \in DOMAIN l : IndexOfID(l[i]) <= 1 + Cardinality({l[j] : j \in 1 .. i - 1}) }

\* newJobBatch(api, l, secs) for a list l of lists and a secs of seconds
BatchInitFor(lists, seconds) ==
    /\ jobIDs \in lists
    /\ btimeout \in {newJobTimeout(secs) : secs \in seconds}
    /\ bcaller \in {"nil", "Canceled", "DeadlineExceeded"}
    /\ btimer = "unset"
    /\ statuses = EmptyMap
    /\ completed = EmptyMap
    /\ pending = <<>>
    /\ failures = EmptyMap
    /\ ready = <<>>
    /\ bpc = "entry"
    /\ bctx = bcaller
    /\ bdoneAt = (IF bcaller = "nil" THEN "never" ELSE "entry")
    /\ bret = [results |-> NoResults, err |-> NilErr]
    /\ reported = EmptyMap
    /\ fetched = EmptyMap
    /\ arrival = <<>>
    /\ bfailed = NoFailure

\* newJobBatch, for any list of job ids the submission returned, with the
\* default timeout
BatchInit == BatchInitFor(JobIDLists, {0})

BatchIdle ==
    /\ jobIDs = <<>>
    /\ btimeout = 0
    /\ bcaller = "nil"
    /\ btimer = "unset"
    /\ bdoneAt = "never"
    /\ statuses = EmptyMap
    /\ completed = EmptyMap
    /\ pending = <<>>
    /\ failures = EmptyMap
    /\ ready = <<>>
    /\ bpc = "idle"
    /\ bctx = "nil"
    /\ bret = [results |-> NoResults, err |-> NilErr]
    /\ reported = EmptyMap
    /\ fetched = EmptyMap
    /\ arrival = <<>>
    /\ bfailed = NoFailure

BatchNext ==
    \/ BatchWaitEntry
    \/ BatchCheckCtx
    \/ BatchPollStatus
    \/ BatchFetchResults
    \/ BatchFinish
    \/ BatchSleep
    \/ BatchTick
    \/ BatchTickCtxDone
    \/ BatchCallerCancel
    \/ BatchTimeout

----------------------------------------------------------------------------
(* postDynamicInputs: the classification of the inputs and the payload *)

\* strings.Contains for a substring of one character
Contains(str, c) == \E i \in DOMAIN str : str[i] = c

HexDigits == {"0", "1", "2", "3", "4", "5", "6", "7", "8", "9",
              "a", "b", "c", "d", "e", "f", "A", "B", "C", "D", "E", "F"}

\* str is groups of hexadecimal digits of the given lengths, with or without
\* a hyphen between two groups, and nothing else
RECURSIVE MatchGroups(_, _)
MatchGroups(str, groups) ==
    IF groups = <<>> THEN str = <<>>
    ELSE LET n    == Head(groups)
             rest == SubSeq(str, n + 1, Len(str))
         IN /\ Len(str) >= n
            /\ \A i \in 1 .. n : str[i] \in HexDigits
            /\ MatchGroups(IF Tail(groups) # <<>> /\ rest # <<>> /\ Head(rest) = "-"
                           THEN Tail(rest) ELSE rest,
                           Tail(groups))

\* uuidPattern.MatchString
isUUIDString(str) == MatchGroups(str, <<8, 4, 4, 4, 12>>)

\* the file system: files with content, an empty file, and directories
UUIDFile == <<"0", "1", "2", "3", "4", "5", "6", "7", "8", "9", "a", "b", "c", "d", "e", "f",
              "0", "1", "2", "3", "4", "5", "6", "7", "8", "9", "A", "B", "C", "D", "E", "F">>
Files == {<<".", "/", "f">>, <<"f", ".", "t">>, UUIDFile}
EmptyFiles == {<<"e", ".", "t">>}
Dirs == {<<"d">>, <<".", "/", "d">>}

\* isFilePath: os.Stat succeeds and does not tell a directory
isFilePath(val) ==
    /\ val # <<>>
    /\ ~isUUIDString(val)
    /\ val \in Files \cup EmptyFiles

\* looksLikePath
looksLikePath(val) ==
    \/ Contains(val, "/")
    \/ Contains(val, "\\")
    \/ (val # <<>> /\ Head(val) = ".")

\* the letters of the schemes of the model, and their lower case
SchemeLetters == {"h", "t", "p", "s", "f", "H", "T", "P", "S"}
LowerLetter(c) ==
    CASE c = "H" -> "h" [] c = "T" -> "t" [] c = "P" -> "p" [] c = "S" -> "s" [] OTHER -> c

\* the position of the colon that ends a scheme, 0 if str starts with none
RECURSIVE SchemeEnd(_, _)
SchemeEnd(str, i) ==
    IF i > Len(str) THEN 0
    ELSE IF str[i] \in SchemeLetters THEN SchemeEnd(str, i + 1)
    ELSE IF str[i] = ":" /\ i > 1 THEN i
    ELSE 0

\* the text up to the first "/", all of it if there is none
RECURSIVE UpToSlash(_)
UpToSlash(str) ==
    IF str = <<>> \/ Head(str) = "/" THEN <<>>
    ELSE <<Head(str)>> \o UpToSlash(Tail(str))

\* url.Parse, for the strings of the model: a scheme of letters before a
\* colon, lower-cased; a host between "//" and the next "/"; an error for a
\* string that starts with a colon or holds a "%", which no model string
\* follows with two hexadecimal digits
ParseURL(str) ==
    IF Contains(str, "%") \/ (str # <<>> /\ Head(str) = ":")
    THEN [err |-> TRUE, Scheme |-> <<>>, Host |-> <<>>]
    ELSE LET colon == SchemeEnd(str, 1)
             rest  == SubSeq(str, colon + 1, Len(str))
         IN [err    |-> FALSE,
             Scheme |-> [i \in 1 .. (IF colon = 0 THEN 0 ELSE colon - 1) |-> LowerLetter(str[i])],
             Host   |-> IF Len(rest) >= 2 /\ SubSeq(rest, 1, 2) = <<"/", "/">>
                        THEN UpToSlash(SubSeq(rest, 3, Len(rest)))
                        ELSE <<>>]

\* isHTTPURL
isHTTPURL(val) ==
    LET parsed == ParseURL(val)
    IN IF parsed.err THEN FALSE
       ELSE IF parsed.Scheme # <<"h", "t", "t", "p">>
               /\ parsed.Scheme # <<"h", "t", "t", "p", "s">> THEN FALSE
       ELSE parsed.Host # <<>>

\* FileUpload.isURL
isURL(f) ==
    IF f.URL = <<>> THEN FALSE
    ELSE LET parsed == ParseURL(f.URL)
         IN ~parsed.err /\ parsed.Scheme # <<>> /\ parsed.Host # <<>>

\* a FileUpload without a limit on its size; Reader tells whether there is one
FileUpload(Path, Reader, URL) ==
    [Path |-> Path, Reader |-> Reader, URL |-> URL, MaxBytes |-> 0]

\* FileUpload{Path: Path, MaxBytes: MaxBytes}
LimitedUpload(Path, MaxBytes) ==
    [Path |-> Path, Reader |-> FALSE, URL |-> <<>>, MaxBytes |-> MaxBytes]

\* info.Size() of the files, in bytes
Size(path) ==
    IF path \in EmptyFiles THEN 0 ELSE IF path = <<".", "/", "f">> THEN 2 ELSE 1

\* the FileUpload made for a reader or for bytes
ReaderUpload == FileUpload(<<>>, TRUE, <<>>)

\* mutant: the size of the file is not compared with MaxBytes
openFailure_NoLimit(f) ==
    IF ~(f.Reader \/ f.Path # <<>> \/ isURL(f)) THEN "requires Path, Reader, or URL"
    ELSE IF f.Reader THEN "none"
    ELSE IF f.Path # <<>>
    THEN IF f.Path \notin Files \cup EmptyFiles \cup Dirs THEN "open"
         ELSE IF f.Path \in Dirs THEN "got directory"
         ELSE IF Size(f.Path) = 0 THEN "is empty"
         ELSE "none"
    ELSE "requires Path, Reader, or URL"

\* FileUpload.validate and FileUpload.open: the error of open, "none" if
\* the upload can be read
openFailure(f) ==
    IF ~(f.Reader \/ f.Path # <<>> \/ isURL(f)) THEN "requires Path, Reader, or URL"
    ELSE IF f.Reader THEN "none"
    ELSE IF f.Path # <<>>
    THEN IF f.Path \notin Files \cup EmptyFiles \cup Dirs THEN "open"
         ELSE IF f.Path \in Dirs THEN "got directory"
         ELSE IF Size(f.Path) = 0 THEN "is empty"
         ELSE IF f.MaxBytes > 0 /\ Size(f.Path) > f.MaxBytes THEN "exceeds max size"
         ELSE "none"
    ELSE "requires Path, Reader, or URL"

\* whether the upload can be read
CanOpen(f) == openFailure(f) = "none"

\* mutant: a string is tried as a file before it is tried as a UUID
classifyString_FileFirst(v) ==
    IF v \in Files \cup EmptyFiles THEN [class |-> "file", File |-> FileUpload(v, FALSE, <<>>)]
    ELSE IF isUUIDString(v) THEN [class |-> "form", value |-> v]
    ELSE IF looksLikePath(v) /\ ~isHTTPURL(v) THEN [class |-> "error"]
    ELSE [class |-> "form", value |-> v]

\* lines 611-621: case string
classifyString(v) ==
    IF isUUIDString(v) THEN [class |-> "form", value |-> v]
    ELSE IF isFilePath(v) THEN [class |-> "file", File |-> FileUpload(v, FALSE, <<>>)]
    ELSE IF looksLikePath(v) /\ ~isHTTPURL(v) THEN [class |-> "error"]
    ELSE [class |-> "form", value |-> v]

\* lines 592-596: case FileUpload
classifyUpload(f) ==
    IF isURL(f) /\ f.Path = <<>> /\ ~f.Reader
    THEN [class |-> "form", value |-> f.URL]
    ELSE [class |-> "file", File |-> f]

\* lines 590-626: the switch on the type of one input
classify(val) ==
    CASE val.type = "string" -> classifyString(val.v)
      [] val.type = "FileUpload" -> classifyUpload(val.v)
      [] val.type = "*FileUpload" ->
            IF val.v = Nil THEN [class |-> "none"] ELSE classifyUpload(val.v[1])
      [] val.type \in {"io.Reader", "[]byte", "*bytes.Buffer", "*bytes.Reader"} ->
            [class |-> "file", File |-> ReaderUpload]
      [] OTHER -> [class |-> "form", value |-> val.v]

\* a plain field and a file part of a payload
Field(key, value) == [kind |-> "field", name |-> key, value |-> value]
FilePart(key, f) == [kind |-> "file", name |-> key, File |-> f]

\* the names of the inputs of the model, in the order form.Encode sorts them
InputKeys == <<"a", "b">>

\* lines 633-636: form.Encode() under the urlencoded content type
FormRequest(form) ==
    [ContentType |-> "application/x-www-form-urlencoded",
     body |-> [i \in DOMAIN SelectSeq(InputKeys, LAMBDA k : k \in DOMAIN form) |->
                  LET k == SelectSeq(InputKeys, LAMBDA x : x \in DOMAIN form)[i]
                  IN Field(k, form[k])]]

\* mutant: the plain fields are left out of a multipart payload
MultipartRequest_FilesOnly(form, fieldOrder, files) ==
    [ContentType |-> "multipart/form-data",
     body |-> [i \in DOMAIN files |-> FilePart(files[i].FieldName, files[i].File)]]

\* lines 646-699: the fields in the order the map gives them, then the files
\* in the order they were queued
MultipartRequest(form, fieldOrder, files) ==
    [ContentType |-> "multipart/form-data",
     body |-> [i \in DOMAIN fieldOrder |-> Field(fieldOrder[i], form[fieldOrder[i]])]
              \o [i \in DOMAIN files |-> FilePart(files[i].FieldName, files[i].File)]]

\* the errors of postDynamicInputs: a string that looks like the path of a
\* file that is not there, an upload that cannot be read, and what doRequest
\* returns
InputError(key) ==
    [kind |-> "local", name |-> "references a file that was not found",
     status |-> 0, at |-> 0, ids |-> {key}]
FileError(failure) == Err("local", failure, 0, 0)
OpenError == FileError("open")
FileErrors ==
    {FileError(failure) : failure \in {"requires Path, Reader, or URL", "open",
                                       "got directory", "is empty", "exceeds max size"}}
SendErrors == {NilErr, TransportError("net", 1)}

----------------------------------------------------------------------------
(* Calls of the functions without state *)

\* no call has been made
NotCalled == [op |-> "none"]

\* the call has not returned
NotReturned == [returned |-> FALSE]

Returned(out) == [returned |-> TRUE, out |-> out]

CallIdle ==
    /\ fcall = NotCalled
    /\ fret = NotReturned

\* the results a batch-result entry can carry: a list of elements that
\* decode, an empty list, a list with an element that does not decode, no
\* result, and a value that is not a list
ConvertResults ==
    { [kind |-> "list", items |-> <<Elem("k", "output", TRUE)>>],
      [kind |-> "list", items |-> <<>>],
      [kind |-> "list", items |-> <<Elem("k", "output", TRUE), Elem("k", "output", FALSE)>>],
      [kind |-> "nil", items |-> <<>>],
      [kind |-> "object", items |-> <<>>] }

\* the batch-result entries convertBatchResult is called with
ConvertEntries ==
    [id : {"job-1", "job-2"},
     AgentID : {Nil, Ptr("agent")},
     AgentVersionID : {Nil, Ptr("version")},
     Result : ConvertResults,
     Corrected : {<<>>, <<Datum(Elem("k", "corrected", TRUE))>>}]

ConvertCalls == {[op |-> "convertBatchResult", res |-> res] : res \in ConvertEntries}

CallConvertBatchResult ==
    /\ fcall.op = "convertBatchResult"
    /\ fret = NotReturned
    /\ fret' = Returned(convertBatchResult(fcall.res))
    /\ UNCHANGED fcall
    /\ CallFrame

\* the items and the sizes chunkStrings and chunkAny are called with
ChunkCalls ==
    {[op |-> o, items |-> it, size |-> sz] :
        o \in {"chunkStrings", "chunkAny"},
        it \in SeqsUpTo({"x", "y"}, MaxItems),
        sz \in -1 .. MaxItems + 1}

CallChunkStrings ==
    /\ fcall.op = "chunkStrings"
    /\ fret = NotReturned
    /\ fret' = Returned(chunkStrings(fcall.items, fcall.size))
    /\ UNCHANGED fcall
    /\ CallFrame

CallChunkAny ==
    /\ fcall.op = "chunkAny"
    /\ fret = NotReturned
    /\ fret' = Returned(chunkAny(fcall.items, fcall.size))
    /\ UNCHANGED fcall
    /\ CallFrame

\* a chunk size small enough for the lists of the model to span several chunks
SmallChunk == 2

\* the chunk sizes the batch calls are explored with: the one of the code, and
\* the small one
ChunkSizes == {SmallChunk, maxBatchSize}

\* the job id lists the batch status and result calls are called with; an id
\* may occur more than once
CallIDLists == SeqsUpTo({"job-1", "job-2"}, MaxIDs)

\* the responses to the chunk requests: one per request, each a list of at most
\* SmallChunk entries drawn from E, in any order and for any id
ChunkResponses(ids, size, E) ==
    [1 .. Len(chunkRequests(ids, size)) -> SeqsUpTo(E, SmallChunk)]

StatusEntries ==
    [id : {"job-1", "job-2"}, Status : {Ptr(JobStarted), Ptr(JobSuccess)}]
        \cup {[id |-> Stranger, Status |-> Ptr(JobFailure)]}

\* for each id an entry that converts and one without agent ids
ResultManyEntries ==
    {e \in UNION {ResultEntries(id) : id \in {"job-1", "job-2", Stranger}} :
        e.AgentID = Nil \/ e.Result.items[1].ok}

\* a call of the batch status or result call op with entries drawn from E
BatchCall(op, E) ==
    \E ids \in CallIDLists, sz \in ChunkSizes :
        \E r \in ChunkResponses(ids, sz, E) :
            fcall = [op |-> op, ids |-> ids, size |-> sz, resps |-> r]

CallRetrieveStatusMany ==
    /\ fcall.op = "RetrieveStatusMany"
    /\ fret = NotReturned
    /\ fret' = Returned([requests |-> chunkRequests(fcall.ids, fcall.size),
                         ret |-> RetrieveStatusMany(fcall.ids, fcall.resps)])
    /\ UNCHANGED fcall
    /\ CallFrame

CallRetrieveResultMany ==
    /\ fcall.op = "RetrieveResultMany"
    /\ fret = NotReturned
    /\ fret' = Returned([requests |-> chunkRequests(fcall.ids, fcall.size),
                         ret |-> RetrieveResultMany(fcall.ids, fcall.resps)])
    /\ UNCHANGED fcall
    /\ CallFrame

\* the statuses apiErrorFromResponse is called with: doRequest calls it for
\* every status outside 200..299
ErrorStatuses == {100, 199, 301, 400, 401, 402, 403, 404, 408, 418, 429, 499, 500, 503, 599}

\* request ids and Retry-After values in the headers of an error response
RequestIDValues == {<<<<"x">>>>, <<<<"x", "9">>, <<"x">>>>}
RetryAfterValues == {<<<<"9">>>>, <<<<"D", "9">>>>, <<<<"x">>>>}

\* the headers of a response, under their canonical keys
ErrorHeaders ==
    {Nil, Ptr(EmptyMap)}
        \cup {Ptr([k \in {"X-Request-Id"} |-> v]) : v \in RequestIDValues}
        \cup {Ptr([k \in {"Retry-After"} |-> v]) : v \in RetryAfterValues}
        \cup {Ptr([k \in {"X-Request-Id", "Retry-After"} |->
                     IF k = "X-Request-Id" THEN v ELSE w]) :
                 v \in RequestIDValues, w \in RetryAfterValues}

ErrorCalls ==
    [op : {"apiErrorFromResponse"},
     status : ErrorStatuses,
     headers : ErrorHeaders,
     requestIDHeader : {"", "X-Request-Id", "x-request-id", "X-Trace"},
     now : Clock]

CallAPIErrorFromResponse ==
    /\ fcall.op = "apiErrorFromResponse"
    /\ fret = NotReturned
    /\ fret' = Returned(typedAPIError(fcall.status, fcall.headers, fcall.requestIDHeader, fcall.now))
    /\ UNCHANGED fcall
    /\ CallFrame

\* the headers parseRetryAfter is called with: none, without a Retry-After,
\* and with every Retry-After value of up to MaxChars characters
RetryAfterCall ==
    \E now \in Clock :
        \/ \E h \in {Nil, Ptr(EmptyMap)} :
              fcall = [op |-> "parseRetryAfter", headers |-> h, now |-> now]
        \/ \E val \in SeqsUpTo(Chars, MaxChars) :
              fcall = [op |-> "parseRetryAfter",
                       headers |-> Ptr([k \in {"Retry-After"} |-> <<val>>]),
                       now |-> now]

CallParseRetryAfter ==
    /\ fcall.op = "parseRetryAfter"
    /\ fret = NotReturned
    /\ fret' = Returned(parseRetryAfter(fcall.headers, fcall.now))
    /\ UNCHANGED fcall
    /\ CallFrame

\* the retry settings a validated Config can hold: positive intervals, a
\* multiplier of at least 1, a jitter between 0 and 1 (here in quarters)
RetryConfigs ==
    [RetryInitialInterval : {1, 8, 800},
     RetryMaxInterval : {2, 80, 8000},
     RetryMultiplier : {1, 2, 3},
     RetryJitter : {0, 2, 4}]

BackoffCalls ==
    [op : {"backoffDuration"}, cfg : RetryConfigs, attempt : 0 .. MaxAttempt]

CallBackoffDuration ==
    /\ fcall.op = "backoffDuration"
    /\ fret = NotReturned
    /\ \E delay \in backoffDuration(fcall.cfg, fcall.attempt) :
          fret' = Returned(delay)
    /\ UNCHANGED fcall
    /\ CallFrame

\* the API keys of the calls: k alone, behind "Bearer " in three spellings,
\* behind two prefixes, behind "bearer" without its space, and with white
\* space before and after it
Key == <<"k">>
APIKeys ==
    {Key,
     BearerSpace \o Key,
     LowerBearerSpace \o Key,
     <<"B", "E", "A", "R", "E", "R", " ">> \o Key,
     BearerSpace \o BearerSpace \o Key,
     <<"b", "e", "a", "r", "e", "r">> \o Key,
     BearerSpace \o <<" ">> \o Key,
     BearerSpace \o Key \o <<" ">>,
     Key \o <<" ">>}

\* a request id and an Authorization value the caller supplies
CallerID == <<"i", "d">>
CallerAuth == <<"B", "a", "s", "i", "c">>

\* the header maps of the configuration and of a call: an Authorization or
\* none, under either spelling, and a request id, an empty one, an empty one
\* before a real one, or none
CallerHeaders ==
    {EmptyMap} \cup
    {[k \in {a} |-> <<CallerAuth>>] : a \in {"Authorization", "authorization"}} \cup
    {[k \in {"X-Request-Id"} |-> ids] :
        ids \in {<<CallerID>>, <<(<<>>)>>, <<(<<>>), CallerID>>}} \cup
    {[k \in {"authorization", "X-Request-Id"} |->
        IF k = "authorization" THEN <<CallerAuth>> ELSE <<CallerID>>]}

\* the request-id settings of a client: newHTTPClient leaves no empty name
RequestIDConfigs ==
    [RequestIDHeader : {"X-Request-ID", "x-request-id"},
     DefaultRequestID : {<<>>, <<"d", "e", "f">>},
     AutoRequestID : BOOLEAN]

\* lines 272-273 of doRequest: the headers of the request of one attempt
RequestHeaderCalls ==
    [op : {"requestHeaders"}, APIKey : APIKeys, cfg : RequestIDConfigs,
     ExtraHeaders : CallerHeaders, headers : CallerHeaders]

CallRequestHeaders ==
    /\ fcall.op = "requestHeaders"
    /\ fret = NotReturned
    /\ \E generated \in GeneratedIDs :
          fret' = Returned(attachRequestID(
                      applyHeaders(Headers(fcall.APIKey), fcall.ExtraHeaders, fcall.headers),
                      fcall.cfg, generated))
    /\ UNCHANGED fcall
    /\ CallFrame

\* the logging settings of a client: newHTTPClient gives a client with Debug
\* set a logger
LogConfigs ==
    {c \in [logger : BOOLEAN, Debug : BOOLEAN,
            RedactHeaders : {{}, {"Authorization"}, {"authorization", "X-Request-ID"},
                             {"X-API-Key"}, {"Authorization", "X-API-Key", "X-Request-ID"}}] :
        c.Debug => c.logger}

\* lines 272-277 of doRequest: the request of an attempt is logged and sent
LogRequestCalls ==
    [op : {"logRequest"}, cfg : LogConfigs,
     header : {applyHeaders(Headers(Key), extra, EmptyMap) : extra \in CallerHeaders}]

CallLogRequest ==
    /\ fcall.op = "logRequest"
    /\ fret = NotReturned
    /\ LET done == logRequest([r \in {"req"} |-> fcall.header], "req", fcall.cfg)
       IN fret' = Returned([logged |-> done.logged, sent |-> done.heap["req"]])
    /\ UNCHANGED fcall
    /\ CallFrame

\* the URLs of the inputs
HTTPURL == <<"h", "t", "t", "p", ":", "/", "/", "h", "/", "p">>
FTPURL == <<"f", "t", "p", ":", "/", "/", "h", "/", "p">>

\* the strings of the inputs: UUIDs with all, some and no hyphens, of which
\* the last is the name of a file; near-UUIDs that are too short, too long or
\* hold a letter beyond f; the paths of a file, of an empty file and of a
\* directory; bare names of a file and of a directory; paths of nothing, with
\* either separator or a leading dot; URLs with the schemes http, https, HTTP
\* and ftp, without host, and with a bad escape; a bare word; the empty string
StringInputs ==
    LET h8  == <<"0", "1", "2", "3", "4", "5", "6", "7">>
        h4  == <<"8", "9", "a", "B">>
        h12 == h8 \o h4
        d   == <<"-">>
    IN {h8 \o d \o h4 \o d \o h4 \o d \o h4 \o d \o h12,
        h8 \o h4 \o d \o h4 \o h4 \o d \o h12,
        UUIDFile,
        h8 \o d \o h4 \o d \o h4 \o d \o h4 \o d \o h8,
        h8 \o d \o h4 \o d \o h4 \o d \o h4 \o d \o h12 \o <<"0">>,
        h8 \o d \o h4 \o d \o h4 \o d \o h4 \o d \o h8 \o <<"8", "9", "a", "g">>,
        <<".", "/", "f">>, <<"e", ".", "t">>, <<".", "/", "d">>,
        <<"f", ".", "t">>, <<"d">>,
        <<"x", "/", "y">>, <<"a", "\\", "b">>, <<".", "h">>,
        HTTPURL,
        <<"h", "t", "t", "p", "s", ":", "/", "/", "h">>,
        <<"H", "T", "T", "P", ":", "/", "/", "h">>,
        FTPURL,
        <<"h", "t", "t", "p", ":", "/", "/", "/", "p">>,
        <<"h", "t", "t", "p", ":", "/", "/", "h", "/", "%">>,
        <<"w">>, <<>>}

\* the uploads of the inputs: with a URL alone (http, ftp, and no URL at
\* all), with a URL beside a path or a reader, with the path of a file and of
\* nothing, with a reader, and with nothing; with the path of a directory
\* and of an empty file; with the path of a file of two bytes and a limit of
\* one byte and of two
Uploads ==
    {FileUpload(<<>>, FALSE, HTTPURL), FileUpload(<<>>, FALSE, FTPURL),
     FileUpload(<<>>, FALSE, <<"w">>),
     FileUpload(<<".", "/", "f">>, FALSE, HTTPURL), FileUpload(<<>>, TRUE, HTTPURL),
     FileUpload(<<".", "/", "f">>, FALSE, <<>>), FileUpload(<<"x", "/", "y">>, FALSE, <<>>),
     FileUpload(<<>>, TRUE, <<>>), FileUpload(<<>>, FALSE, <<>>),
     FileUpload(<<"d">>, FALSE, <<>>), FileUpload(<<"e", ".", "t">>, FALSE, <<>>),
     LimitedUpload(<<".", "/", "f">>, 1), LimitedUpload(<<".", "/", "f">>, 2)}

\* the values of the inputs, by their Go types
InputValues ==
    [type : {"string"}, v : StringInputs]
    \cup [type : {"FileUpload"}, v : Uploads]
    \cup [type : {"*FileUpload"}, v : {Nil, Ptr(FileUpload(<<>>, FALSE, HTTPURL)),
                                       Ptr(FileUpload(<<>>, TRUE, <<>>))}]
    \cup [type : {"io.Reader", "[]byte", "*bytes.Buffer", "*bytes.Reader"}, v : {<<>>}]
    \cup [type : {"fmt.Stringer", "int"}, v : {<<"7">>}]

\* the calls of postDynamicInputs: no input, one, and two
PostInputsCall ==
    \E keys \in {{}, {"a"}, {"a", "b"}} :
        \E inputs \in [keys -> InputValues] :
            fcall = [op |-> "postDynamicInputs", inputs |-> inputs]

\* postDynamicInputsWithContext: the results the call can have, each given
\* with the form, the queue of files and the request handed to doRequest,
\* where it got that far
postDynamicInputsWithContext(inputs) ==
    LET class(k) == classify(inputs[k])
        errs     == {k \in DOMAIN inputs : class(k).class = "error"}
        formKeys == {k \in DOMAIN inputs : class(k).class = "form"}
        fileKeys == {k \in DOMAIN inputs : class(k).class = "file"}
        form     == [k \in formKeys |-> class(k).value]
        filesOf(queued) == [i \in DOMAIN queued |->
                              [FieldName |-> queued[i], File |-> class(queued[i]).File]]
    IN IF errs # {}
       THEN {[err |-> InputError(k), form |-> Nil, files |-> Nil, request |-> Nil] : k \in errs}
       ELSE IF fileKeys = {}
       THEN {[err |-> sent, form |-> Ptr(form), files |-> Ptr(<<>>),
              request |-> Ptr(FormRequest(form))] : sent \in SendErrors}
       ELSE UNION {
              LET files == filesOf(queued)
                  bad   == {i \in DOMAIN files : ~CanOpen(files[i].File)}
                  first == CHOOSE i \in bad : \A j \in bad : i <= j
              IN IF bad # {}
                 THEN {[err |-> FileError(openFailure(files[first].File)),
                        form |-> Ptr(form), files |-> Ptr(files), request |-> Nil]}
                 ELSE {[err |-> sent, form |-> Ptr(form), files |-> Ptr(files),
                        request |-> Ptr(MultipartRequest(form, fieldOrder, files))] :
                          fieldOrder \in Perms(formKeys), sent \in SendErrors}
              : queued \in Perms(fileKeys)}

CallPostDynamicInputs ==
    /\ fcall.op = "postDynamicInputs"
    /\ fret = NotReturned
    /\ \E r \in postDynamicInputsWithContext(fcall.inputs) : fret' = Returned(r)
    /\ UNCHANGED fcall
    /\ CallFrame

\* no Job
NoJob == Nil

\* newJob(a, jobID, timeoutSeconds)
newJob(id) == Ptr([jobID |-> id])

\* fmt.Errorf("...: %w", err): an error with a message of its own that wraps err
Wrapped(message, err) ==
    [kind |-> "local", name |-> message, status |-> 0, at |-> 0, ids |-> {}, cause |-> err]

\* the job ids the remote answers a run request with
RunAnswers == {"job-1", ""}

\* the inputs of the run calls: a plain value, the path of a file, a string
\* that looks like the path of a file that is not there, a reader, and an
\* upload that cannot be read
RunInputs ==
    [type : {"string"}, v : {<<"w">>, <<".", "/", "f">>, <<"x", "/", "y">>}]
    \cup [type : {"io.Reader"}, v : {<<>>}]
    \cup [type : {"FileUpload"}, v : {FileUpload(<<"x", "/", "y">>, FALSE, <<>>)}]

\* the calls of RunWithContext and RunVersionWithContext
RunCall ==
    \E keys \in {{}, {"a"}, {"a", "b"}} :
        \E inputs \in [keys -> RunInputs], agentID \in {"", "agent-id"} :
            \/ fcall = [op |-> "Run", agentID |-> agentID, inputs |-> inputs]
            \/ \E versionID \in {"", "version-id"} :
                  fcall = [op |-> "RunVersion", agentID |-> agentID,
                           versionID |-> versionID, inputs |-> inputs]

\* what a run call returns, with the submission it made (none: Nil)
RunReturned(job, err, post) == Returned([job |-> job, err |-> err, post |-> post])

\* mutant: the Job is made whatever the submission returned
submitJob_Always(message) ==
    \E r \in postDynamicInputsWithContext(fcall.inputs), id \in RunAnswers :
        fret' = RunReturned(newJob(id), IF r.err # NilErr THEN Wrapped(message, r.err) ELSE NilErr,
                            Ptr(r))

\* agents_api.go lines 165-169 and 230-235: the submission, and the Job made
\* of the id it answered
submitJob(message) ==
    \E r \in postDynamicInputsWithContext(fcall.inputs), id \in RunAnswers :
        IF r.err # NilErr
        THEN fret' = RunReturned(NoJob, Wrapped(message, r.err), Ptr(r))
        ELSE fret' = RunReturned(newJob(id), NilErr, Ptr(r))

\* AgentsAPI.RunWithContext
CallRun ==
    /\ fcall.op = "Run"
    /\ fret = NotReturned
    /\ IF fcall.agentID = ""
       THEN fret' = RunReturned(NoJob, Err("local", "agentID cannot be empty", 0, 0), Nil)
       ELSE submitJob("run agent")
    /\ UNCHANGED fcall
    /\ CallFrame

\* AgentsAPI.RunVersionWithContext
CallRunVersion ==
    /\ fcall.op = "RunVersion"
    /\ fret = NotReturned
    /\ IF fcall.agentID = ""
       THEN fret' = RunReturned(NoJob, Err("local", "agentID cannot be empty", 0, 0), Nil)
       ELSE IF fcall.versionID = ""
       THEN fret' = RunReturned(NoJob, Err("local", "versionID cannot be empty", 0, 0), Nil)
       ELSE submitJob("run agent version")
    /\ UNCHANGED fcall
    /\ CallFrame

CallInit ==
    /\ \/ fcall \in ConvertCalls
       \/ PostInputsCall
       \/ RunCall
       \/ fcall \in LogRequestCalls
       \/ fcall \in RequestHeaderCalls
       \/ fcall \in BackoffCalls
       \/ fcall \in ErrorCalls
       \/ RetryAfterCall
       \/ fcall \in ChunkCalls
       \/ BatchCall("RetrieveStatusMany", StatusEntries)
       \/ BatchCall("RetrieveResultMany", ResultManyEntries)
    /\ fret = NotReturned

CallNext ==
    \/ CallConvertBatchResult
    \/ CallAPIErrorFromResponse
    \/ CallParseRetryAfter
    \/ CallBackoffDuration
    \/ CallRequestHeaders
    \/ CallLogRequest
    \/ CallPostDynamicInputs
    \/ CallRun
    \/ CallRunVersion
    \/ CallChunkStrings
    \/ CallChunkAny
    \/ CallRetrieveStatusMany
    \/ CallRetrieveResultMany

----------------------------------------------------------------------------
(* JobBatch.RetrieveStatus *)

\* lines 263-271: the tracked ids without an entry in b.statuses
toQueryOf(ids, known) == SelectSeq(ids, LAMBDA id : id \notin DOMAIN known)

\* no status map
NoStatuses == Nil

\* one call of RetrieveStatus, made while no WaitContext of the batch runs
BatchRetrieveStatus ==
    /\ bpc \in {"entry", "done"}
    /\ snapCalls < MaxSnapshots
    /\ snapCalls' = snapCalls + 1
    /\ snapBefore' = statuses
    /\ LET toQuery == toQueryOf(jobIDs, statuses) IN
       /\ snapQueried' = toQuery
       /\ IF Len(toQuery) = 0
          THEN /\ snapRet' = [statuses |-> Ptr(statuses), err |-> NilErr]
               /\ UNCHANGED <<statuses, reported>>
          ELSE \/ \E e \in RequestErrors("nil") :
                    /\ snapRet' = [statuses |-> NoStatuses, err |-> e]
                    /\ UNCHANGED <<statuses, reported>>
               \/ \E resp \in StatusResponses(toQuery) :
                    LET got == RetrieveStatusMany(toQuery, <<resp>>) IN
                    /\ reported' = noteReported(resp, 1, reported)
                    /\ IF got.err # NilErr
                       THEN /\ snapRet' = [statuses |-> NoStatuses, err |-> got.err]
                            /\ UNCHANGED statuses
                       ELSE LET scan == scanStatuses(got.val, 1, statuses, <<>>) IN
                            /\ statuses' = scan.statuses
                            /\ snapRet' = [statuses |-> Ptr(scan.statuses), err |-> NilErr]
    /\ UNCHANGED <<jobIDs, completed, pending, failures, ready, bpc, bctx, bret,
                   fetched, arrival, btimeout, bcaller, btimer, bdoneAt, bfailed>>
    /\ UNCHANGED <<httpVars, jobVars, callVars, runVars, snapWaits, pairVars, raceVars>>

\* the caller calls WaitContext on the batch once more, with a context of its
\* own; the histories of a wait start anew
BatchWaitAgain ==
    /\ bpc = "done"
    /\ snapWaits < MaxWaits
    /\ snapWaits' = snapWaits + 1
    /\ bpc' = "entry"
    /\ bcaller' \in {"nil", "Canceled"}
    /\ bctx' = bcaller'
    /\ btimer' = "unset"
    /\ bdoneAt' = (IF bcaller' = "nil" THEN "never" ELSE "entry")
    /\ bret' = [results |-> NoResults, err |-> NilErr]
    /\ bfailed' = NoFailure
    /\ fetched' = EmptyMap
    /\ arrival' = <<>>
    /\ UNCHANGED <<jobIDs, statuses, completed, pending, failures, ready, reported, btimeout>>
    /\ UNCHANGED <<httpVars, jobVars, callVars, runVars, snapCalls, snapBefore, snapQueried, snapRet>>
    /\ UNCHANGED <<pairVars, raceVars>>

SnapshotInit ==
    /\ snapCalls = 0
    /\ snapBefore = EmptyMap
    /\ snapQueried = <<>>
    /\ snapRet = [statuses |-> NoStatuses, err |-> NilErr]
    /\ snapWaits = 1

----------------------------------------------------------------------------
(* JobBatch.RetrieveStatus called while WaitContext runs on the batch *)

\* what the steps of the overlapping call leave alone
RaceFrame ==
    /\ UNCHANGED <<jobIDs, completed, pending, failures, ready, bctx, bret, fetched,
                   arrival, btimeout, bcaller, btimer, bdoneAt, bfailed>>
    /\ UNCHANGED <<httpVars, jobVars, callVars, runVars, snapVars, pairVars>>

\* the overlapping call has returned
RaceReturn(statusMap, err) ==
    /\ rpc' = "done"
    /\ rret' = [statuses |-> statusMap, err |-> err]

\* lines 262-271: the call copies the known statuses and lists the others
RaceCall ==
    /\ rpc = "idle"
    /\ bpc \notin {"done", "fatal"}
    /\ rquery' = toQueryOf(jobIDs, statuses)
    /\ rlocal' = [id \in SetOf(jobIDs) \cap DOMAIN statuses |-> statuses[id]]
    /\ IF Len(rquery') = 0
       THEN RaceReturn(Ptr(rlocal'), NilErr)
       ELSE rpc' = "request" /\ UNCHANGED rret
    /\ UNCHANGED <<rwrites, raceBefore, statuses, reported, bpc>>
    /\ RaceFrame

\* lines 272-276: RetrieveStatusMany(toQuery) returns
RaceResponse ==
    /\ rpc = "request"
    /\ \/ \E e \in RequestErrors("nil") :
            /\ RaceReturn(NoStatuses, e)
            /\ UNCHANGED <<rwrites, reported>>
       \/ \E resp \in StatusResponses(rquery) :
            LET got == RetrieveStatusMany(rquery, <<resp>>) IN
            /\ reported' = noteReported(resp, 1, reported)
            /\ IF got.err # NilErr
               THEN /\ RaceReturn(NoStatuses, got.err)
                    /\ UNCHANGED rwrites
               ELSE LET found == SelectSeq(got.val, LAMBDA st : st.Status # Nil) IN
                    /\ rwrites' = found
                    /\ IF found = <<>>
                       THEN RaceReturn(Ptr(rlocal), NilErr)
                       ELSE rpc' = "write" /\ UNCHANGED rret
    /\ UNCHANGED <<rquery, rlocal, raceBefore, statuses, bpc>>
    /\ RaceFrame

\* line 280: the write b.statuses[st.ID] = *st.Status begins
RaceWriteBegin ==
    /\ rpc = "write"
    /\ rpc' = "writing"
    /\ raceBefore' = statuses
    /\ UNCHANGED <<rquery, rlocal, rwrites, rret, statuses, reported, bpc>>
    /\ RaceFrame

\* the instruction after the last write of the call
RaceGoOn(left, statusMap) ==
    IF left = <<>> THEN RaceReturn(Ptr(statusMap), NilErr)
    ELSE rpc' = "write" /\ UNCHANGED rret

\* line 280: the write ends.  If WaitContext wrote b.statuses meanwhile
\* the two writes were a data race on the map: the runtime stops the process
\* with "concurrent map writes", or either write is lost, or both are kept
RaceWriteEnd ==
    /\ rpc = "writing"
    /\ LET st == Head(rwrites)
           statusMap == Put(rlocal, st.id, st.Status[1])
       IN /\ rlocal' = statusMap
          /\ rwrites' = Tail(rwrites)
          /\ IF statuses = raceBefore
             THEN /\ statuses' = Put(statuses, st.id, st.Status[1])
                  /\ RaceGoOn(Tail(rwrites), statusMap)
                  /\ UNCHANGED bpc
             ELSE \/ /\ rpc' = "fatal"
                     /\ bpc' = "fatal"
                     /\ UNCHANGED <<statuses, rret>>
                  \/ /\ statuses' \in {Put(statuses, st.id, st.Status[1]), statuses,
                                       Put(raceBefore, st.id, st.Status[1])}
                     /\ RaceGoOn(Tail(rwrites), statusMap)
                     /\ UNCHANGED bpc
    /\ UNCHANGED <<rquery, raceBefore, reported>>
    /\ RaceFrame

RaceNext ==
    \/ RaceCall
    \/ RaceResponse
    \/ RaceWriteBegin
    \/ RaceWriteEnd

\* no overlapping call
RaceIdle ==
    /\ rpc = "idle"
    /\ rquery = <<>>
    /\ rlocal = EmptyMap
    /\ rwrites = <<>>
    /\ raceBefore = EmptyMap
    /\ rret = [statuses |-> NoStatuses, err |-> NilErr]

----------------------------------------------------------------------------
(* AgentsAPI.RunManyWithContext *)

\* the chunks of the call
rmChunks == chunkAny(rmArgs.batchInputs, rmArgs.size)

\* no JobBatch
NoBatch == Nil

\* newJobBatch(a, jobIDs, timeoutSeconds)
newJobBatch(ids) == Ptr([jobIDs |-> ids])

RunManyReturn(batch, err) ==
    /\ rmpc' = "done"
    /\ rmRet' = [batch |-> batch, err |-> err]

\* lines 179-185: the checks of the arguments
RunManyEntry ==
    /\ rmpc = "entry"
    /\ IF rmArgs.agentID = ""
       THEN RunManyReturn(NoBatch, Err("local", "agentID cannot be empty", 0, 0))
       ELSE IF Len(rmArgs.batchInputs) = 0
       THEN RunManyReturn(NoBatch, Err("local", "batchInputs cannot be empty", 0, 0))
       ELSE /\ rmpc' = "check"
            /\ UNCHANGED rmRet
    /\ UNCHANGED <<rmArgs, rmctx, rmi, rmSent, rmJobIDs, rmDoneAt>>
    /\ RunFrame

\* lines 187-189: if err := ctx.Err(); err != nil { return nil, err }
RunManyCheckCtx ==
    /\ rmpc = "check"
    /\ IF rmctx # "nil"
       THEN RunManyReturn(NoBatch, CtxError(rmctx))
       ELSE /\ rmpc' = "post"
            /\ UNCHANGED rmRet
    /\ UNCHANGED <<rmArgs, rmctx, rmi, rmSent, rmJobIDs, rmDoneAt>>
    /\ RunFrame

\* the id lists the remote answers a chunk with: one id per input, or none
RunManyAnswers(chunk) == {chunk, <<>>}

\* mutant: the request is sent whatever the context says
RunManyPost_Unchecked ==
    /\ rmpc = "post"
    /\ rmSent' = Append(rmSent, rmChunks[rmi])
    /\ \/ \E e \in RequestErrors(rmctx) :
             /\ RunManyReturn(NoBatch, e)
             /\ UNCHANGED <<rmi, rmJobIDs>>
       \/ \E ids \in RunManyAnswers(rmChunks[rmi]) :
             /\ rmJobIDs' = rmJobIDs \o ids
             /\ rmi' = rmi + 1
             /\ rmpc' = IF rmi < Len(rmChunks) THEN "check" ELSE "return"
             /\ UNCHANGED rmRet
    /\ UNCHANGED <<rmArgs, rmctx, rmDoneAt>>
    /\ RunFrame

\* lines 190-195: the request for the chunk; with a context that is done
\* doRequest returns its error before anything is sent
RunManyPost ==
    /\ rmpc = "post"
    /\ \/ /\ rmctx # "nil"
          /\ RunManyReturn(NoBatch, CtxError(rmctx))
          /\ UNCHANGED <<rmi, rmSent, rmJobIDs>>
       \/ /\ rmctx = "nil"
          /\ rmSent' = Append(rmSent, rmChunks[rmi])
          /\ \/ \E e \in RequestErrors(rmctx) :
                   /\ RunManyReturn(NoBatch, e)
                   /\ UNCHANGED <<rmi, rmJobIDs>>
             \/ \E ids \in RunManyAnswers(rmChunks[rmi]) :
                   /\ rmJobIDs' = rmJobIDs \o ids
                   /\ rmi' = rmi + 1
                   /\ rmpc' = IF rmi < Len(rmChunks) THEN "check" ELSE "return"
                   /\ UNCHANGED rmRet
    /\ UNCHANGED <<rmArgs, rmctx, rmDoneAt>>
    /\ RunFrame

\* line 197: return newJobBatch(a, jobIDs, timeoutSeconds), nil
RunManyFinish ==
    /\ rmpc = "return"
    /\ RunManyReturn(newJobBatch(rmJobIDs), NilErr)
    /\ UNCHANGED <<rmArgs, rmctx, rmi, rmSent, rmJobIDs, rmDoneAt>>
    /\ RunFrame

\* the caller cancels the context, or its deadline passes, while the call runs
RunManyCancel ==
    /\ rmpc \in {"entry", "check", "post", "return"}
    /\ rmctx = "nil"
    /\ rmctx' \in {"Canceled", "DeadlineExceeded"}
    /\ rmDoneAt' = rmpc
    /\ UNCHANGED <<rmArgs, rmpc, rmi, rmSent, rmJobIDs, rmRet>>
    /\ RunFrame

\* the inputs are numbered, so that their order shows
RunManyInit ==
    /\ rmArgs \in [agentID : {"", "agent-id"},
                   batchInputs : {[i \in 1 .. n |-> i] : n \in 0 .. MaxInputs},
                   size : ChunkSizes]
    /\ rmctx \in {"nil", "Canceled", "DeadlineExceeded"}
    /\ rmpc = "entry"
    /\ rmi = 1
    /\ rmSent = <<>>
    /\ rmJobIDs = <<>>
    /\ rmRet = [batch |-> NoBatch, err |-> NilErr]
    /\ rmDoneAt = (IF rmctx = "nil" THEN "never" ELSE "before")

RunManyIdle ==
    /\ rmArgs = [agentID |-> "", batchInputs |-> <<>>, size |-> maxBatchSize]
    /\ rmctx = "nil"
    /\ rmpc = "idle"
    /\ rmi = 1
    /\ rmSent = <<>>
    /\ rmJobIDs = <<>>
    /\ rmRet = [batch |-> NoBatch, err |-> NilErr]
    /\ rmDoneAt = "never"

RunManyNext ==
    \/ RunManyEntry
    \/ RunManyCheckCtx
    \/ RunManyPost
    \/ RunManyFinish
    \/ RunManyCancel

----------------------------------------------------------------------------
(* Specifications *)

InitHTTP == HTTPInit /\ JobIdle /\ BatchIdle /\ CallIdle /\ RunManyIdle /\ SnapshotInit /\ PairIdle /\ RaceIdle
SpecHTTP == InitHTTP /\ [][HTTPNext]_vars

\* the clients whose requests are followed: with one retry or with a
\* MaxRetries of -1, without hooks, and adding nothing of their own, an extra header, a default request
\* id, or a generated one
SendSettings ==
    {PlainSettings,
     [PlainSettings EXCEPT !.ExtraHeaders = [k \in {"X-Team"} |-> <<(<<"t">>)>>]],
     [PlainSettings EXCEPT !.DefaultRequestID = <<"d", "e", "f">>],
     [PlainSettings EXCEPT !.AutoRequestID = TRUE]}

\* the bodies of a call: none, for a GET, and a *bytes.Buffer or another
\* reader, for a POST
SendBodies ==
    {[kind |-> "nil", data |-> <<>>],
     [kind |-> "Buffer", data |-> <<"x">>],
     [kind |-> "Reader", data |-> <<"x", "y">>]}

\* the headers of a call: none, a request id, an Authorization
SendHeaders ==
    {EmptyMap,
     [k \in {"X-Request-Id"} |-> <<(<<"i", "d">>)>>],
     [k \in {"authorization"} |-> <<(<<"B", "a", "s", "i", "c">>)>>]}

InitSend ==
    /\ HTTPInitFor({ConfigOf(retries, [BeforeRequest |-> <<>>, AfterResponse |-> <<>>], settings) :
                        retries \in {-1, 1}, settings \in SendSettings},
                   {[method |-> IF body.kind = "nil" THEN "GET" ELSE "POST",
                     url |-> "/v1/agents/", headers |-> headers, body |-> body] :
                        headers \in SendHeaders, body \in SendBodies})
    /\ JobIdle /\ BatchIdle /\ CallIdle /\ RunManyIdle /\ SnapshotInit /\ PairIdle /\ RaceIdle
SpecSend == InitSend /\ [][HTTPNext]_vars

\* two calls of a request without headers on a client with one retry and
\* without hooks, with contexts that are live when the calls are made
InitPair ==
    /\ HTTPInitFor({ConfigOf(1, [BeforeRequest |-> <<>>, AfterResponse |-> <<>>], PlainSettings)},
                   {PlainArgs})
    /\ ctxErr = "nil"
    /\ parked = Ptr(Locals)
    /\ running = 1
    /\ JobIdle /\ BatchIdle /\ CallIdle /\ RunManyIdle /\ SnapshotInit /\ RaceIdle
SpecPair == InitPair /\ [][PairNext]_vars

\* a wait on a batch of one job, with a context that is live when the wait
\* begins, and a RetrieveStatus call on the batch that begins while the wait
\* runs
InitRace ==
    /\ BatchInitFor({<<"job-1">>}, {0})
    /\ bcaller = "nil"
    /\ HTTPIdle /\ JobIdle /\ CallIdle /\ RunManyIdle /\ SnapshotInit /\ PairIdle /\ RaceIdle
RaceSpecNext == BatchNext \/ RaceNext
SpecRace == InitRace /\ [][RaceSpecNext]_vars

InitJob == HTTPIdle /\ JobInit /\ BatchIdle /\ CallIdle /\ RunManyIdle /\ SnapshotInit /\ PairIdle /\ RaceIdle
SpecJob == InitJob /\ [][JobNext]_vars

InitBatch == HTTPIdle /\ JobIdle /\ BatchInit /\ CallIdle /\ RunManyIdle /\ SnapshotInit /\ PairIdle /\ RaceIdle
SpecBatch == InitBatch /\ [][BatchNext]_vars

\* the lists of job ids of the batches whose waits are followed with every
\* timeout setting
WaitLists == {<<>>, <<"job-1">>, <<"job-1", "job-2">>}

\* one wait, of a Job or of a JobBatch, with any timeout setting
InitWait ==
    /\ HTTPIdle
    /\ CallIdle
    /\ RunManyIdle
    /\ SnapshotInit /\ PairIdle /\ RaceIdle
    /\ \/ JobInit /\ BatchIdle
       \/ JobIdle /\ BatchInitFor(WaitLists, TimeoutSeconds)
WaitNext == JobNext \/ BatchNext
SpecWait == InitWait /\ [][WaitNext]_vars

\* the same with the progress the runtime gives: the goroutine running the wait
\* takes its next step, every request is answered, the ticker ticks, and a
\* timer that is set fires.  Nothing makes the caller cancel its context.
WaitFairness ==
    /\ WF_vars(JobWaitEntry) /\ WF_vars(JobCheckCtx) /\ WF_vars(JobRetrieveStatus)
    /\ WF_vars(JobRetrieveResult) /\ WF_vars(JobTick) /\ WF_vars(JobTimeout)
    /\ WF_vars(BatchWaitEntry) /\ WF_vars(BatchCheckCtx) /\ WF_vars(BatchPollStatus)
    /\ WF_vars(BatchFetchResults) /\ WF_vars(BatchFinish) /\ WF_vars(BatchSleep)
    /\ WF_vars(BatchTick) /\ WF_vars(BatchTimeout)
SpecWaitLive == InitWait /\ [][WaitNext]_vars /\ WaitFairness

InitCalls == CallInit /\ HTTPIdle /\ JobIdle /\ BatchIdle /\ RunManyIdle /\ SnapshotInit /\ PairIdle /\ RaceIdle

InitRunMany == RunManyInit /\ HTTPIdle /\ JobIdle /\ BatchIdle /\ CallIdle /\ SnapshotInit /\ PairIdle /\ RaceIdle
SpecRunMany == InitRunMany /\ [][RunManyNext]_vars

\* a batch of up to two jobs, one wait, and status snapshots before and after it
InitSnapshot ==
    /\ HTTPIdle
    /\ JobIdle
    /\ BatchInitFor(WaitLists, {0})
    /\ CallIdle
    /\ RunManyIdle
    /\ SnapshotInit /\ PairIdle /\ RaceIdle
SnapshotNext == BatchNext \/ BatchRetrieveStatus
SpecSnapshot == InitSnapshot /\ [][SnapshotNext]_vars

\* a batch of one job, and any sequence of waits and status snapshots on it
InitSequence ==
    /\ HTTPIdle
    /\ JobIdle
    /\ BatchInitFor({<<"job-1">>}, {0})
    /\ bcaller = "nil"
    /\ CallIdle
    /\ RunManyIdle
    /\ SnapshotInit /\ PairIdle /\ RaceIdle
SequenceNext == BatchNext \/ BatchRetrieveStatus \/ BatchWaitAgain
SpecSequence == InitSequence /\ [][SequenceNext]_vars
SpecCalls == InitCalls /\ [][CallNext]_vars

\* one submission: a call of Run, RunVersion or RunMany
InitSubmit ==
    /\ HTTPIdle
    /\ JobIdle
    /\ BatchIdle
    /\ SnapshotInit /\ PairIdle /\ RaceIdle
    /\ \/ RunCall /\ fret = NotReturned /\ RunManyIdle
       \/ CallIdle /\ RunManyInit
SubmitNext == CallRun \/ CallRunVersion \/ RunManyNext
SpecSubmit == InitSubmit /\ [][SubmitNext]_vars

----------------------------------------------------------------------------
(* Claims about JobBatch.WaitContext (SpecBatch) *)

\* the wait ran to the end: it returned from the final assembly
BatchAssembled == bpc = "done" /\ bret.results # NoResults

\* the result of job id, converted from the entry the remote returned for it
ConvertedOf(id) == convertBatchResult(fetched[id]).val

\* one result per tracked id, results[i] being the result of jobIDs[i]
ResultsInCanonicalOrder ==
    /\ Len(bret.results[1]) = Len(jobIDs)
    /\ \A i \in DOMAIN jobIDs :
         /\ jobIDs[i] \in DOMAIN fetched
         /\ bret.results[1][i] = ConvertedOf(jobIDs[i])

\* the tracked ids whose last reported status is failure or cancelled
FailedIDs ==
    {id \in SetOf(jobIDs) \cap DOMAIN reported :
        reported[id] = JobFailure \/ reported[id] = JobCancelled}

\* C1: whenever JobBatch.WaitContext returns with a nil error, the returned
\* list has exactly one result per tracked job id and results[i] is the
\* converted result of jobIDs[i], whatever the order in which the jobs became
\* terminal and whatever the order of the entries in the remote responses.
C1_OrderedResults ==
    (bpc = "done" /\ bret.err = NilErr) =>
        (bret.results # NoResults /\ ResultsInCanonicalOrder)

\* C1 witness: a wait over three distinct jobs returned without error although
\* the result entries arrived in another order than the canonical one
C1_Witness ==
    /\ bpc = "done"
    /\ bret.err = NilErr
    /\ Len(jobIDs) = 3
    /\ Cardinality(SetOf(jobIDs)) = 3
    /\ arrival = <<jobIDs[2], jobIDs[1], jobIDs[3]>>
    /\ bret.results[1][1].Outputs[1].key = jobIDs[1]

----------------------------------------------------------------------------
(* Claims about httpClient.doRequest (SpecHTTP) *)

\* the statuses the retry policy names: >= 500, 408, 429
RetryableStatus(st) == st >= 500 \/ st = 408 \/ st = 429

\* call k received a response and read its body
GotResponse(k) == calls[k].err = "nil" /\ calls[k].readOK

Is2xx(k) == GotResponse(k) /\ calls[k].status >= 200 /\ calls[k].status < 300

IsNon2xx(k) == GotResponse(k) /\ ~(calls[k].status >= 200 /\ calls[k].status < 300)

\* call k failed in a way the retry policy retries
RetryableFailure(k) ==
    \/ calls[k].err = "net"
    \/ IsNon2xx(k) /\ RetryableStatus(calls[k].status)

\* the error attempt k produced
ErrorOf(k) ==
    IF calls[k].err # "nil" THEN TransportError(calls[k].err, k)
    ELSE apiErrorFromResponse(calls[k].status, k)

\* retries are left after attempt k (k - 1 retries have been used)
BudgetLeft(k) == k - 1 < cfg.MaxRetries

\* doRequest returned the context's error
ReturnedCtxError == pc = "done" /\ ctxErr # "nil" /\ ret = [body |-> NoBody, err |-> CtxError(ctxErr)]

\* after call k doRequest goes on to the next attempt: it is sleeping before it,
\* about to start it, has made it, or was stopped by the context ending first
GoesOn(k) == k < Len(calls) \/ pc \in {"sleep", "loop"} \/ ReturnedCtxError

\* doRequest returned right after call k, with the given result
ReturnedAfter(k, body, err) ==
    k = Len(calls) /\ pc = "done" /\ ret = [body |-> body, err |-> err]

\* C3: one logical request makes at most MaxRetries+1 network attempts; every
\* attempt before the last failed in a retryable way; a 2xx response at attempt
\* k ends the request after exactly k attempts with that response's body and a
\* nil error; and before the budget is used up a retryable failure ends the
\* request only through the context.
C3_AttemptsAndSuccess ==
    /\ Len(calls) <= (IF cfg.MaxRetries + 1 > 0 THEN cfg.MaxRetries + 1 ELSE 0)
    /\ \A k \in DOMAIN calls :
         /\ k < Len(calls) => RetryableFailure(k)
         /\ Is2xx(k) => ReturnedAfter(k, RespBody(calls[k].status, k), NilErr)
         /\ (RetryableFailure(k) /\ k < cfg.MaxRetries + 1) => GoesOn(k)

\* C3 witness: MaxRetries = 2, two 500s then a 200: three attempts, the body of
\* the third, no error
C3_Witness ==
    /\ cfg.MaxRetries = 2
    /\ pc = "done"
    /\ calls = <<Call("nil", 500, TRUE), Call("nil", 500, TRUE), Call("nil", 200, TRUE)>>
    /\ ret = [body |-> RespBody(200, 3), err |-> NilErr]

\* C4: a non-2xx response is followed by another attempt exactly when its
\* status is >= 500, 408 or 429 and fewer than MaxRetries retries have been
\* used (the context ending first is the one thing that stops that attempt);
\* for every other non-2xx response doRequest returns the typed error at once
\* and makes no further network call.
C4_RetryPolicy ==
    \A k \in DOMAIN calls :
        IsNon2xx(k) =>
            IF RetryableStatus(calls[k].status) /\ BudgetLeft(k)
            THEN GoesOn(k)
            ELSE ReturnedAfter(k, NoBody, apiErrorFromResponse(calls[k].status, k))

\* C4 witness: a 503 was followed by another attempt, whose 404 ended the
\* request with the typed error although retries were left
C4_Witness ==
    /\ cfg.MaxRetries = 2
    /\ pc = "done"
    /\ calls = <<Call("nil", 503, TRUE), Call("nil", 404, TRUE)>>
    /\ ret.err = Err("api", "NotFoundError", 404, 2)

\* C5: when all MaxRetries+1 attempts failed in a retryable way, doRequest has
\* returned right after the last of them, with the error of that last attempt.
C5_LastError ==
    (/\ Len(calls) >= 1
     /\ Len(calls) = cfg.MaxRetries + 1
     /\ \A k \in DOMAIN calls : RetryableFailure(k))
        => ReturnedAfter(Len(calls), NoBody, ErrorOf(Len(calls)))

\* C5 witness: MaxRetries = 2 and three retryable failures of different kinds:
\* the error returned is the 429 of the third attempt
C5_Witness ==
    /\ cfg.MaxRetries = 2
    /\ pc = "done"
    /\ calls = <<Call("net", 0, FALSE), Call("nil", 500, TRUE), Call("nil", 429, TRUE)>>
    /\ ret.err = Err("api", "RateLimitError", 429, 3)
    /\ lastErr = ret.err

\* C6: if the context is done when an attempt is about to start, doRequest
\* returns the context's error and makes no network call for that attempt; a
\* request started with a done context never makes a network call.
C6_NoCallWhenCtxDone ==
    /\ [](ctxDoneAt.pc = "entry" => calls = <<>>)
    /\ [][(pc = "loop" /\ attempt < maxAttempts /\ ctxErr # "nil")
             => (pc' = "done" /\ calls' = calls
                 /\ ret' = [body |-> NoBody, err |-> CtxError(ctxErr)])]_vars

\* C6 witness: the context ended after the sleep and before the retry started;
\* the retry was not sent and the context's error came back
C6_Witness ==
    /\ pc = "done"
    /\ ctxDoneAt = [pc |-> "loop", calls |-> 1]
    /\ Len(calls) = 1
    /\ attempt = 1
    /\ ret = [body |-> NoBody, err |-> CtxError("Canceled")]

\* C7: if the context is cancelled while doRequest sleeps between two attempts,
\* doRequest makes no further attempt and returns the context's error.
C7_CancelledSleep ==
    ctxDoneAt.pc = "sleep" =>
        /\ Len(calls) = ctxDoneAt.calls
        /\ pc = "done" => ret = [body |-> NoBody, err |-> CtxError(ctxErr)]

\* C7 witness: cancelled during the first of two possible backoff sleeps
C7_Witness ==
    /\ cfg.MaxRetries = 2
    /\ ctxDoneAt = [pc |-> "sleep", calls |-> 1]
    /\ pc = "done"
    /\ attempt = 0
    /\ ret.err = CtxError("Canceled")

\* C8: an attempt that fails with context.Canceled or context.DeadlineExceeded
\* is never retried, whatever the budget: its error is returned at once.  Any
\* other transport error is retried while retries remain, and returned once
\* they are used up.
C8_TransportErrors ==
    \A k \in DOMAIN calls :
        calls[k].err # "nil" =>
            IF calls[k].err \in {"Canceled", "DeadlineExceeded"}
            THEN ReturnedAfter(k, NoBody, TransportError(calls[k].err, k))
            ELSE IF BudgetLeft(k) THEN GoesOn(k)
            ELSE ReturnedAfter(k, NoBody, TransportError(calls[k].err, k))

\* C8 witness: a network error was retried, then the client's own timeout (the
\* context still live) ended the request with a retry left
C8_Witness ==
    /\ cfg.MaxRetries = 2
    /\ ctxErr = "nil"
    /\ pc = "done"
    /\ calls = <<Call("net", 0, FALSE), Call("DeadlineExceeded", 0, FALSE)>>
    /\ ret.err = TransportError("DeadlineExceeded", 2)

----------------------------------------------------------------------------
(* Claims about Job.WaitContext (SpecJob) *)

\* the terminal statuses, as the specification lists them
TerminalStatuses == {JobSuccess, JobFailure, JobCancelled, JobCached}

\* status call k returned a terminal status
ObservedTerminal(k) == statusCalls[k].err = NilErr /\ statusCalls[k].status \in TerminalStatuses

\* C9: Job.WaitContext stops polling the first time it observes a terminal
\* status: that status call is the last one, exactly one result call follows
\* it, and no result call is made before a terminal status was observed.
C9_StopsAtTerminal ==
    /\ \A k \in DOMAIN statusCalls :
         ObservedTerminal(k) =>
            /\ k = Len(statusCalls)
            /\ jpc # "result" => (Len(resultCalls) = 1 /\ jpc = "done")
    /\ Len(resultCalls) <= 1
    /\ \A i \in DOMAIN jtrace :
         jtrace[i] = "result" =>
            /\ i = Len(jtrace)
            /\ statusCalls # <<>>
            /\ ObservedTerminal(Len(statusCalls))
    /\ \A k \in DOMAIN statusCalls :
         (statusCalls[k].err = NilErr /\ ~ObservedTerminal(k)) =>
            (k < Len(statusCalls) \/ resultCalls = <<>>)

\* C9 witness: two non-terminal polls, then failure, then the single result call
C9_Witness ==
    /\ jpc = "done"
    /\ jtrace = <<"status", "status", "status", "result">>
    /\ [k \in DOMAIN statusCalls |-> statusCalls[k].status] = <<JobPending, JobRetry, JobFailure>>
    /\ Len(resultCalls) = 1

\* C10: when the terminal status is failure or cancelled and the result call
\* succeeds, Job.WaitContext returns the fetched result together with an error
\* naming the job id and the ending status; when it is success or cached it
\* returns the fetched result with a nil error.
C10_ResultKeptOnFailure ==
    (jpc = "done" /\ resultCalls # <<>> /\ resultCalls[1].err = NilErr) =>
        LET st == statusCalls[Len(statusCalls)].status IN
        /\ jret.result = resultCalls[1].result
        /\ jret.result # ZeroResult
        /\ st = JobFailure => jret.err = JobErr("ended with status", "failure", {jobID})
        /\ st = JobCancelled => jret.err = JobErr("ended with status", "cancelled", {jobID})
        /\ st \in {JobSuccess, JobCached} => jret.err = NilErr

\* C10 witness: a cancelled job whose result was fetched and returned with the error
C10_Witness ==
    /\ jpc = "done"
    /\ jstatus = JobCancelled
    /\ resultCalls = <<[result |-> "out-A", err |-> NilErr]>>
    /\ jret = [result |-> "out-A", err |-> JobErr("ended with status", "cancelled", {jobID})]

----------------------------------------------------------------------------
(* Claims about cancellation and timeouts of the waits (SpecWait) *)

\* the places where a wait is between two requests: before its first loop
\* iteration, at the top of an iteration, in the sleep between two polls
BetweenRequests == {"entry", "check", "tick"}

\* Job.WaitContext returned the zero result and an error wrapping ctx.Err()
JobWaitCancelled ==
    jret = [result |-> ZeroResult, err |-> JobErr("wait cancelled", jctx, {jobID})]

\* JobBatch.WaitContext returned nil results and an error wrapping ctx.Err()
BatchWaitCancelled ==
    bret = [results |-> NoResults, err |-> JobErr("job batch wait cancelled", bctx, {})]

\* a Job.WaitContext whose context became done between two requests makes no
\* further request and returns the wrapped context error
JobCancelledBetweenRequests ==
    jdoneAt \in BetweenRequests =>
        /\ jpc \notin {"status", "result"}
        /\ jpc = "done" => JobWaitCancelled
        /\ jdoneAt = "entry" => (statusCalls = <<>> /\ jtrace = <<>>)

\* the same of a JobBatch.WaitContext
BatchCancelledBetweenRequests ==
    bdoneAt \in BetweenRequests =>
        /\ bpc \notin {"poll", "fetch", "after"}
        /\ bpc = "done" => BatchWaitCancelled
        /\ bdoneAt = "entry" => reported = EmptyMap

\* C11 as stated: in Job.WaitContext and JobBatch.WaitContext, a context that
\* is done on entry, at the start of a poll iteration or during the inter-poll
\* sleep makes the wait return a zero/nil result and an error wrapping the
\* context's error; done on entry, no status request is made.
C11_CancelledWait ==
    /\ JobCancelledBetweenRequests
    /\ BatchCancelledBetweenRequests

\* C11 as amended: the same for every Job.WaitContext and for every
\* JobBatch.WaitContext of a batch that tracks at least one job id (the wait of
\* a batch without job ids returns an empty list and a nil error without
\* looking at its context).
C11_CancelledWaitOfJobs ==
    /\ JobCancelledBetweenRequests
    /\ jobIDs # <<>> => BatchCancelledBetweenRequests
    /\ (jobIDs = <<>> /\ bpc = "done") => bret = [results |-> Ptr(<<>>), err |-> NilErr]

\* C11 witness: a batch of two jobs whose wait was cancelled in the sleep after
\* its first poll and returned the wrapped error
C11_Witness ==
    /\ Len(jobIDs) = 2
    /\ bdoneAt = "tick"
    /\ bpc = "done"
    /\ reported # EmptyMap
    /\ bret = [results |-> NoResults, err |-> JobErr("job batch wait cancelled", "Canceled", {})]

\* the context a wait observes is done exactly when the caller's context is
\* done or the wait's timer has fired, and its error is that of one of them
Composed(caller, timer, ctx) ==
    /\ ctx # "nil" <=> (caller # "nil" \/ timer = "fired")
    /\ ctx \in {"nil"} \cup (IF caller # "nil" THEN {caller} ELSE {})
                      \cup (IF timer = "fired" THEN {"DeadlineExceeded"} ELSE {})

\* the errors a wait ends with when its context is done
JobCancellationErrors == {CtxError(jctx), JobErr("wait cancelled", jctx, {jobID})}
BatchCancellationErrors == {CtxError(bctx), JobErr("job batch wait cancelled", bctx, {})}

\* C12: the wait's timeout composes with the caller's context: the context the
\* wait observes is done as soon as the caller's context is done or the timer
\* has fired, whichever comes first, and keeps the error of the first; a wait
\* whose context is done ends with a cancellation error carrying it.  Three
\* waits end otherwise although their context is done: that of a Job without
\* API, that of a batch whose last result was fetched before the context became
\* done, and that of a batch without job ids (see C11).
C12_TimeoutComposes ==
    /\ [](/\ Composed(jcaller, jtimer, jctx)
          /\ Composed(bcaller, btimer, bctx)
          /\ (jpc = "done" /\ jctx # "nil" /\ agentsAPI) =>
                (jret.result = ZeroResult /\ jret.err \in JobCancellationErrors)
          /\ (bpc = "done" /\ bctx # "nil" /\ bdoneAt # "after" /\ jobIDs # <<>>) =>
                (bret.results = NoResults /\ bret.err \in BatchCancellationErrors))
    /\ [][/\ jctx # "nil" => jctx' = jctx
          /\ bctx # "nil" => bctx' = bctx]_vars

\* C12 witness: the timer fired first and ended the wait with its deadline
\* error; the caller's cancellation came later and changed nothing
C12_Witness ==
    /\ jtimer = "fired"
    /\ jcaller = "Canceled"
    /\ jctx = "DeadlineExceeded"
    /\ jdoneAt = "tick"
    /\ jpc = "done"
    /\ jret.err = JobErr("wait cancelled", "DeadlineExceeded", {jobID})

\* C13 as stated: every Job.WaitContext and JobBatch.WaitContext call
\* eventually returns, also when the jobs never become terminal and the caller
\* never cancels (the effective timeout being always positive).
C13_EveryWaitReturns == <>(jpc = "done" \/ bpc = "done")

\* what the claim rests on: once a wait has started, its deadline timer is set
C13_TimerAlwaysSet ==
    /\ jpc \notin {"idle", "entry"} => jtimer # "off"
    /\ bpc \notin {"idle", "entry"} => btimer # "off"

\* what holds instead: a wait whose timer is set returns
C13_TimedWaitReturns ==
    /\ (jtimer = "armed") ~> (jpc = "done")
    /\ (btimer = "armed") ~> (bpc = "done")

----------------------------------------------------------------------------
(* More claims about JobBatch.WaitContext (SpecBatch) *)

\* the step is the batch result call of WaitContext, and the remote answered it
ResultsAnswered ==
    /\ bpc = "fetch"
    /\ bpc' # "fetch"
    /\ ~(bpc' = "done" /\ bret'.err \in RequestErrors(bctx))

\* the ready ids the answer had no entry for (no result entry of a ready id
\* has been seen before its batch result call)
MissingAfter == SetOf(ready) \ DOMAIN fetched'

\* C14: if the batch results fetched for the ready ids lack an entry for one of
\* them, WaitContext fails with an error naming the missing ids and returns no
\* results; a wait that goes on, or returns a result list, has an entry for
\* every id it observed terminal.
C14_MissingResult ==
    /\ [](bpc = "fetch" => SetOf(ready) \cap DOMAIN fetched = {})
    /\ [](BatchAssembled => (/\ Len(bret.results[1]) = Len(jobIDs)
                             /\ SetOf(jobIDs) \subseteq DOMAIN fetched))
    /\ [][(ResultsAnswered /\ MissingAfter # {}) =>
             (/\ bpc' = "done"
              /\ bret'.results = NoResults
              /\ bret'.err # NilErr
              /\ bret'.err.ids = MissingAfter)]_vars

\* C14 witness: two jobs were ready, the results had an entry for the first
\* only, and the wait failed naming the second
C14_Witness ==
    /\ Len(jobIDs) = 2
    /\ ready = jobIDs
    /\ DOMAIN fetched = {jobIDs[1]}
    /\ bpc = "done"
    /\ bret = [results |-> NoResults,
               err |-> JobErr("jobs not found in results response", "", {jobIDs[2]})]

\* a polled status has shown a job of the batch in status failure or cancelled
FailureObserved ==
    \E id \in DOMAIN statuses : statuses[id] = JobFailure \/ statuses[id] = JobCancelled

\* C17 as stated: once a polled status shows a job in status failure or
\* cancelled, WaitContext returns with an error instead of polling the jobs
\* that are still non-terminal: it never starts another status request.
C17_ShortCircuit == ~(FailureObserved /\ bpc = "poll" /\ bctx = "nil")

----------------------------------------------------------------------------
(* Claims about the functions without state (SpecCalls) *)

\* convertBatchResult has returned
Converted == fcall.op = "convertBatchResult" /\ fret.returned

NotFoundOrDeleted(res) == JobErr("not found or deleted", "", {res.id})

\* C15 as stated: convertBatchResult returns the "job <id> not found or
\* deleted" error exactly when the entry lacks both the agent id and the
\* agent-version id; an entry carrying at least one of the two is not
\* rejected as not found.
C15_NotFoundWithoutBothIDs ==
    Converted =>
        ((fret.out.err = NotFoundOrDeleted(fcall.res))
            <=> (fcall.res.AgentID = Nil /\ fcall.res.AgentVersionID = Nil))

\* C15: convertBatchResult returns the "job <id> not found or deleted" error,
\* with a zero result, exactly when the entry lacks the agent id or the
\* agent-version id (one of them or both); an entry carrying both ids is not
\* rejected as not found, and its result carries both ids (no nil pointer is
\* dereferenced).
C15_NotFoundWithoutAnID ==
    Converted =>
        LET res == fcall.res
            out == fret.out
        IN /\ (out.err = NotFoundOrDeleted(res))
                 <=> (res.AgentID = Nil \/ res.AgentVersionID = Nil)
           /\ out.err = NotFoundOrDeleted(res) => out.val = ZeroResult
           /\ out.err.kind # "not found or deleted" => out.err.ids \subseteq {res.id}
           /\ out.err = NilErr =>
                 /\ Ptr(out.val.AgentID) = res.AgentID
                 /\ Ptr(out.val.AgentVersionID) = res.AgentVersionID

\* C15 witness: an entry with an agent id and no agent-version id was
\* rejected as not found
C15_Witness ==
    /\ Converted
    /\ fcall.res.AgentID # Nil
    /\ fcall.res.AgentVersionID = Nil
    /\ fret.out = [err |-> NotFoundOrDeleted(fcall.res), val |-> ZeroResult]

\* chunkStrings or chunkAny has returned
Chunked == fcall.op \in {"chunkStrings", "chunkAny"} /\ fret.returned

\* ceil(n / s) for s > 0
CeilDiv(n, s) == (n + s - 1) \div s

\* C19: chunkStrings and chunkAny on N items with chunk size S: when 0 < S < N
\* they yield ceil(N/S) chunks, each non-empty and of at most S items, whose
\* concatenation is the input in order; when S <= 0 or S >= N they yield
\* exactly one chunk holding all items (one empty chunk for N = 0).
C19_Chunks ==
    Chunked =>
        LET N == Len(fcall.items)
            S == fcall.size
            chunks == fret.out
        IN /\ (0 < S /\ S < N) =>
                 /\ Len(chunks) = CeilDiv(N, S)
                 /\ \A c \in DOMAIN chunks : Len(chunks[c]) >= 1 /\ Len(chunks[c]) <= S
                 /\ Flatten(chunks) = fcall.items
           /\ (S <= 0 \/ S >= N) => chunks = <<fcall.items>>

\* C19 witness: five items in chunks of two came back as three chunks, the
\* last one holding the single remaining item
C19_Witness ==
    /\ Chunked
    /\ Len(fcall.items) = 5
    /\ fcall.size = 2
    /\ Len(fret.out) = 3
    /\ fret.out[3] = <<fcall.items[5]>>

\* the batch status call or the batch result call has returned
RetrievedMany == fcall.op \in {"RetrieveStatusMany", "RetrieveResultMany"} /\ fret.returned

\* the entries the remote returned, over all chunk responses
RemoteEntries == SetOf(Flatten(fcall.resps))

\* the requested ids no response has an entry for
Unanswered == {id \in SetOf(fcall.ids) : \A e \in RemoteEntries : e.id # id}

\* what C18 asks of a returned call
AlignedWithInput ==
    LET ids == fcall.ids
        got == fret.out.ret
    IN /\ ids = <<>> => (got = [err |-> NilErr, val |-> <<>>] /\ fret.out.requests = <<>>)
       /\ Unanswered # {} => (got.err # NilErr /\ got.val = <<>>)
       /\ Unanswered = {} => got.err = NilErr
       /\ (got.err = NilErr) =>
             /\ Len(got.val) = Len(ids)
             /\ \A i \in DOMAIN ids : got.val[i].id = ids[i] /\ got.val[i] \in RemoteEntries

\* C18 as stated: for any list of job ids the batch status and result calls
\* return, on success, exactly len(jobIDs) entries where entry i has the id
\* jobIDs[i] and carries the data the remote returned for that id, whatever the
\* order of the entries within and across the chunk responses; if a requested
\* id is in no response they return an error and no entries; for an empty list
\* they return nothing without any request.
C18_AlignedEntries == RetrievedMany => AlignedWithInput

\* the same for the lists in which no job id occurs twice
C18_AlignedEntriesOfDistinctIDs ==
    (RetrievedMany /\ Cardinality(SetOf(fcall.ids)) = Len(fcall.ids)) => AlignedWithInput

----------------------------------------------------------------------------
(* Claims about AgentsAPI.RunManyWithContext (SpecRunMany) *)

\* the call got past the checks of its arguments
RunManyValid == rmArgs.agentID # "" /\ Len(rmArgs.batchInputs) > 0

\* the call has returned, and the context was done before it did
RunManyCancelled == rmpc = "done" /\ rmDoneAt # "never"

\* the chunks sent are the first chunks of the inputs, in input order, each of
\* at most the chunk size
SentInOrder ==
    /\ Len(rmSent) <= Len(rmChunks)
    /\ \A k \in DOMAIN rmSent : rmSent[k] = rmChunks[k] /\ Len(rmSent[k]) <= rmArgs.size
    /\ Flatten(rmChunks) = rmArgs.batchInputs

\* no chunk request is sent while the context is done
NoRequestOnceCancelled == rmctx # "nil" => rmSent' = rmSent

\* C20 as stated: RunManyWithContext submits its inputs in chunks of at most
\* the chunk size in input order and checks the context before each chunk:
\* once the context is cancelled, no further chunk request is sent and the
\* call returns the cancellation error with no JobBatch.
C20_StopsOnceCancelled ==
    /\ [](SentInOrder)
    /\ [][NoRequestOnceCancelled]_vars
    /\ []((RunManyValid /\ RunManyCancelled) =>
            rmRet = [batch |-> NoBatch, err |-> CtxError(rmctx)])

\* C20: RunManyWithContext submits its inputs in chunks of at most the chunk
\* size in input order and checks the context before each chunk: once the
\* context is cancelled, no further chunk request is sent, and if a chunk was
\* still to be submitted the call returns the cancellation error with no
\* JobBatch; a JobBatch is returned only when every chunk was submitted, also
\* when the context is cancelled after the last chunk's response.
C20_StopsBeforeNextChunk ==
    /\ [](SentInOrder)
    /\ [][NoRequestOnceCancelled]_vars
    /\ []((RunManyValid /\ RunManyCancelled /\ rmDoneAt # "return") =>
            /\ rmRet = [batch |-> NoBatch, err |-> CtxError(rmctx)]
            /\ Len(rmSent) < Len(rmChunks))
    /\ []((rmpc = "done" /\ rmRet.batch # NoBatch) =>
            /\ rmSent = rmChunks
            /\ rmDoneAt \in {"never", "return"}
            /\ rmRet.err = NilErr)
    /\ []((rmpc = "done" /\ rmDoneAt = "return") => rmRet.batch # NoBatch)

\* C20 witness: the context was cancelled right after the first chunk's
\* response, a second chunk was still to be submitted, and the call returned
\* the cancellation error after that one request
C20_Witness ==
    /\ rmpc = "done"
    /\ rmDoneAt = "check"
    /\ Len(rmSent) = 1
    /\ Len(rmChunks) >= 2
    /\ rmRet = [batch |-> NoBatch, err |-> CtxError("Canceled")]

----------------------------------------------------------------------------
(* Claims about JobBatch.RetrieveStatus (SpecSnapshot) *)

\* the tracked ids without a recorded terminal status, as a call found them
Unresolved(known) ==
    SelectSeq(jobIDs, LAMBDA id : id \notin DOMAIN known \/ ~IsTerminal(known[id]))

\* C16 as stated: JobBatch.RetrieveStatus queries the remote for exactly the
\* tracked job ids that have no locally recorded terminal status: an id whose
\* recorded status is terminal is never queried again, and an id whose
\* recorded status is non-terminal is queried again.
C16_QueriesUnresolved == snapCalls > 0 => snapQueried = Unresolved(snapBefore)

\* what the code does: the ids queried are those without any recorded status
C16_QueriesUnrecorded == snapCalls > 0 => snapQueried = toQueryOf(jobIDs, snapBefore)

----------------------------------------------------------------------------
(* Claims about errors.go (SpecCalls) *)

\* apiErrorFromResponse has returned
ErrorMapped == fcall.op = "apiErrorFromResponse" /\ fret.returned

\* the variant the mapping table gives a status
VariantOf(status) ==
    IF status = 400 THEN "BadRequestError"
    ELSE IF status = 401 THEN "AuthenticationError"
    ELSE IF status = 402 THEN "InsufficientCreditsError"
    ELSE IF status = 403 THEN "ForbiddenError"
    ELSE IF status = 404 THEN "NotFoundError"
    ELSE IF status = 429 THEN "RateLimitError"
    ELSE IF status >= 500 THEN "ServerError"
    ELSE "APIError"

\* the first value the response has for the configured request-id header,
\* whatever the case the name is configured in
RequestIDOf(headers, name) ==
    IF headers = Nil \/ name = "" THEN <<>>
    ELSE IF name \in {"X-Request-Id", "x-request-id"} /\ "X-Request-Id" \in DOMAIN headers[1]
    THEN headers[1]["X-Request-Id"][1]
    ELSE <<>>

\* C21: apiErrorFromResponse maps every non-2xx status to exactly one error
\* variant: 400 BadRequest, 401 Authentication, 402 InsufficientCredits, 403
\* Forbidden, 404 NotFound, 429 RateLimit, any status >= 500 ServerError, and
\* every other status the generic APIError; every variant carries the given
\* status code and the request id read from the configured request-id
\* response header.
C21_StatusToVariant ==
    ErrorMapped =>
        /\ fret.out.variant = VariantOf(fcall.status)
        /\ fret.out.StatusCode = fcall.status
        /\ fret.out.RequestID = RequestIDOf(fcall.headers, fcall.requestIDHeader)

\* C21 witness: a 418 with a request id in its headers became the generic
\* APIError carrying that id, the header name being configured in lower case
C21_Witness ==
    /\ ErrorMapped
    /\ fcall.status = 418
    /\ fcall.requestIDHeader = "x-request-id"
    /\ fret.out.variant = "APIError"
    /\ fret.out.RequestID = <<"x", "9">>

\* parseRetryAfter has returned
RetryAfterParsed == fcall.op = "parseRetryAfter" /\ fret.returned

\* the Retry-After value of the call, "" when there is none
RetryAfterValue ==
    IF fcall.headers = Nil \/ "Retry-After" \notin DOMAIN fcall.headers[1] THEN <<>>
    ELSE fcall.headers[1]["Retry-After"][1]

\* the durations a Duration can hold, in seconds
DurationRange == (0 - 2 ^ (DurationBits - 1)) .. (2 ^ (DurationBits - 1) - 1)

\* what C22 asks of a returned call; the time until a date further away than
\* a Duration can hold is left open
RetryAfterAsStated ==
    LET val == RetryAfterValue IN
    IF val = <<>> THEN fret.out = Nil
    ELSE IF Atoi(val).ok THEN fret.out = Ptr(Atoi(val).n)
    ELSE IF ParseTime(val).ok
    THEN /\ fret.out # Nil
         /\ (ParseTime(val).t - fcall.now) \in DurationRange
                => fret.out = Ptr(ParseTime(val).t - fcall.now)
    ELSE fret.out = Nil

\* C22 as stated: the retry-after of a 429 is the integer number of seconds
\* when the Retry-After header parses as an integer, otherwise the remaining
\* time until the date when it parses as an HTTP-date, and is unset (absent,
\* not zero) when the header is missing, empty or parses as neither.
C22_RetryAfter == RetryAfterParsed => RetryAfterAsStated

\* the same for the numbers of seconds a Duration can hold
C22_RetryAfterInRange ==
    (RetryAfterParsed /\ (Atoi(RetryAfterValue).ok => Atoi(RetryAfterValue).n \in DurationRange))
        => RetryAfterAsStated

----------------------------------------------------------------------------
(* Claims about the sleep before a retry (SpecHTTP) *)

\* what parseRetryAfter made of the headers of the response slept after
SleptRetryAfter == parseRetryAfter(Ptr(slept.header), slept.now)

\* the larger of two durations
Longest(a, b) == IF a >= b THEN a ELSE b

\* C23: the sleep before a retry that follows a response is the maximum of
\* the backoff and the retry-after when the response carries a Retry-After
\* that parses to a positive duration, and the backoff alone when it is
\* absent, unparseable, zero or negative; the sleep before a retry that
\* follows a transport error is always the backoff alone.
C23_SleepBeforeRetry ==
    /\ slept.after = "response" =>
          IF SleptRetryAfter # Nil /\ SleptRetryAfter[1] > 0
          THEN slept.delay = Longest(slept.backoff, SleptRetryAfter[1])
          ELSE slept.delay = slept.backoff
    /\ slept.after = "error" => slept.delay = slept.backoff

\* C23 witness: doRequest has slept after a response whose Retry-After of 9
\* seconds is shorter than the backoff of 20, and slept the backoff
C23_Witness ==
    /\ slept.after = "response"
    /\ slept.header = [k \in {"Retry-After"} |-> <<(<<"9">>)>>]
    /\ slept.backoff = 20
    /\ slept.delay = 20
    /\ pc = "done"

----------------------------------------------------------------------------
(* Claims about backoffDuration (SpecCalls) *)

\* backoffDuration has returned
BackedOff == fcall.op = "backoffDuration" /\ fret.returned

\* the smaller of two durations
Shortest(a, b) == IF a <= b THEN a ELSE b

\* min(initial * multiplier^a, max_interval) for the settings c
CappedDelay(c, a) ==
    Shortest(Grow(c.RetryInitialInterval, c.RetryMultiplier, a), c.RetryMaxInterval)

\* max(1ms, min(initial * multiplier^a, max_interval))
StatedBackoff(c, a) == Longest(Millisecond, CappedDelay(c, a))

\* d lies within [(1-j), (1+j)] times v, floored at 1ms, up to the fraction
\* of a unit the conversions drop
WithinJitter(d, v, j) ==
    /\ Longest(Millisecond, ((4 - j) * v) \div 4) <= d
    /\ d <= Longest(Millisecond, ((4 + j) * v + 3) \div 4)

\* what C24 asks of a returned call
BackoffAsStated ==
    LET c == fcall.cfg
        a == fcall.attempt
    IN IF c.RetryJitter = 0
       THEN /\ fret.out = StatedBackoff(c, a)
            /\ \A b \in 0 .. a : \A d \in backoffDuration(c, b) : d <= fret.out
            /\ fret.out >= Shortest(c.RetryInitialInterval, c.RetryMaxInterval)
       ELSE WithinJitter(fret.out, CappedDelay(c, a), c.RetryJitter)

\* C24 as stated: with jitter 0, for every attempt a >= 0 (including large a
\* where initial * multiplier^a exceeds the Duration range) backoffDuration(a)
\* = max(1ms, min(initial * multiplier^a, max_interval)), so it is
\* non-decreasing in a and never below min(initial, max_interval); with
\* jitter j in (0, 1] the result lies within [(1-j), (1+j)] times that value,
\* floored at 1ms.
C24_Backoff == BackedOff => BackoffAsStated

\* the same for the attempts whose initial * multiplier^a a Duration can hold
C24_BackoffInRange ==
    (BackedOff /\ Grow(fcall.cfg.RetryInitialInterval, fcall.cfg.RetryMultiplier,
                       fcall.attempt) <= MaxDuration)
        => BackoffAsStated

----------------------------------------------------------------------------
(* Claims about the headers of an attempt (SpecCalls) *)

\* the headers of an attempt have been made
HeadersMade == fcall.op = "requestHeaders" /\ fret.returned

\* req.Header before attachRequestID
Applied == applyHeaders(Headers(fcall.APIKey), fcall.ExtraHeaders, fcall.headers)

\* the request carries a value for the request-id header, as Header.Get tells
CarriesRequestID(h) == Get(h, fcall.cfg.RequestIDHeader) # <<>>

\* h but for the request-id header, which holds id alone
WithRequestID(h, id) == Put(h, "X-Request-Id", <<id>>)

PrefixRemoved(key) ==
    IF HasPrefix(ToLower(key), LowerBearerSpace) THEN SubSeq(key, 8, Len(key)) ELSE key

\* the same, what is left behind the prefix being trimmed of white space
PrefixRemovedAndTrimmed(key) ==
    IF HasPrefix(ToLower(key), LowerBearerSpace)
    THEN TrimSpace(SubSeq(key, 8, Len(key)))
    ELSE key

\* the Authorization values of a header map of the caller, in its order
AuthorizationOf(src) ==
    IF "Authorization" \in DOMAIN src THEN src["Authorization"]
    ELSE IF "authorization" \in DOMAIN src THEN src["authorization"]
    ELSE <<>>

\* the Authorization values of the request are "Bearer " and key, then those
\* of the extra headers, then those of the per-call headers
AuthorizationIs(key) ==
    fret.out["Authorization"] =
        <<BearerSpace \o key>> \o AuthorizationOf(fcall.ExtraHeaders)
                               \o AuthorizationOf(fcall.headers)

\* C27 as stated: every attempt carries "Bearer <key>" as the first
\* Authorization value, key being the configured API key with one leading
\* case-insensitive "bearer " prefix removed; Authorization values of the
\* extra or per-call headers are appended after it and never replace it.
C27_Authorization == HeadersMade => AuthorizationIs(PrefixRemoved(fcall.APIKey))

\* C27 amended: the key is the configured API key with one leading
\* case-insensitive "bearer " prefix removed and, when a prefix was removed,
\* the white space around the rest trimmed; a key without the prefix is used
\* as it is.  The values of the caller are appended after it.
C27_AuthorizationTrimmed ==
    HeadersMade => AuthorizationIs(PrefixRemovedAndTrimmed(fcall.APIKey))

\* C27 witness: the key "bearer k" and an authorization header among the
\* extra headers gave "Bearer k" followed by the value of the caller
C27_Witness ==
    /\ HeadersMade
    /\ fcall.APIKey = LowerBearerSpace \o Key
    /\ AuthorizationOf(fcall.ExtraHeaders) = <<CallerAuth>>
    /\ fret.out["Authorization"] = <<BearerSpace \o Key, CallerAuth>>

----------------------------------------------------------------------------
(* Claims about the hooks (SpecHTTP) *)

\* the responses c.client.Do has returned, and those whose body was read
ResponsesReceived == Cardinality({k \in DOMAIN calls : calls[k].err = "nil"})
ResponsesRead == Cardinality({k \in DOMAIN calls : calls[k].err = "nil" /\ calls[k].readOK})

\* every hook of the list, in registration order
AllOf(hooks) == [i \in DOMAIN hooks |-> i]

\* no panic of a hook leaves doRequest; every run of a list calls all of its
\* hooks in order; the pre-request hooks have run once per attempt; and a 2xx
\* response that was read is returned whatever the hooks did
HooksSwallowed ==
    /\ pc # "panicked"
    /\ hooked.requests = Len(calls)
    /\ hooked.requests > 0 => hooked.before = AllOf(cfg.BeforeRequest)
    /\ hooked.responses > 0 => hooked.after = AllOf(cfg.AfterResponse)
    /\ (pc = "done" /\ calls # <<>>) =>
          LET last == calls[Len(calls)] IN
          (last.err = "nil" /\ last.readOK /\ last.status >= 200 /\ last.status < 300)
              => ret = [body |-> RespBody(last.status, Len(calls)), err |-> NilErr]

\* C26 as stated: a panic raised by a pre-request or post-response hook is
\* swallowed: the remaining hooks of the list are still invoked in
\* registration order, the attempt proceeds, and doRequest returns what it
\* would have returned; pre-request hooks run once per attempt and
\* post-response hooks once per response received, non-2xx ones included.
C26_Hooks == HooksSwallowed /\ hooked.responses = ResponsesReceived

\* C26 amended: the post-response hooks run once per response whose body
\* was read, non-2xx ones included; a response whose body cannot be read ends
\* doRequest before they run.
C26_HooksOfReadResponses == HooksSwallowed /\ hooked.responses = ResponsesRead

\* C26 witness: with a panicking hook in each list, a 500 and then a 200 were
\* answered by two runs of each list, every hook being called, and the 200
\* was returned
C26_Witness ==
    /\ pc = "done"
    /\ cfg.BeforeRequest = <<"returns", "panics", "returns">>
    /\ cfg.AfterResponse = <<"panics">>
    /\ Len(calls) = 2
    /\ calls[1].status = 500
    /\ calls[2].status = 200
    /\ ret.err = NilErr
    /\ hooked = [requests |-> 2, responses |-> 2, before |-> <<1, 2, 3>>, after |-> <<1>>]

----------------------------------------------------------------------------
(* Claims about the logging of a request (SpecCalls) *)

\* logRequest has returned and the request is sent
RequestLogged == fcall.op = "logRequest" /\ fret.returned

\* C28: header redaction affects only what is logged: with debug logging on
\* or off and for any redaction set, the headers of the outgoing request are
\* left unchanged by logging; a redacted header such as Authorization is
\* still sent with its real value.
C28_RedactionOnlyInLog ==
    RequestLogged =>
        /\ fret.out.sent = fcall.header
        /\ fret.out.sent["Authorization"][1] = BearerSpace \o Key

\* C28 witness: with debug logging on and Authorization in the redaction set
\* the log shows the placeholder while the request carries "Bearer k" and the
\* value of the caller
C28_Witness ==
    /\ RequestLogged
    /\ fcall.cfg.Debug
    /\ fret.out.logged # Nil
    /\ fret.out.logged[1]["Authorization"] = <<Redacted>>
    /\ fret.out.sent["Authorization"] = <<BearerSpace \o Key, CallerAuth>>

----------------------------------------------------------------------------
(* Claims about postDynamicInputs (SpecCalls) *)

\* postDynamicInputs has returned
Posted == fcall.op = "postDynamicInputs" /\ fret.returned

\* what C29 makes of a string
StatedStringClass(v) ==
    IF isUUIDString(v) THEN "form"
    ELSE IF v \in Files \cup EmptyFiles THEN "file"
    ELSE IF looksLikePath(v) /\ ~isHTTPURL(v) THEN "error"
    ELSE "form"

\* the upload has a URL and neither a path nor a reader
OnlyURL(f) == isURL(f) /\ f.Path = <<>> /\ ~f.Reader

\* what C29 makes of an input; it does not speak of a nil *FileUpload, nor
\* of the values that are neither strings, uploads, readers nor bytes
StatedClass(val) ==
    CASE val.type = "string" -> StatedStringClass(val.v)
      [] val.type = "FileUpload" -> IF OnlyURL(val.v) THEN "form" ELSE "file"
      [] val.type = "*FileUpload" /\ val.v # Nil -> IF OnlyURL(val.v[1]) THEN "form" ELSE "file"
      [] val.type \in {"io.Reader", "[]byte", "*bytes.Buffer", "*bytes.Reader"} -> "file"
      [] OTHER -> "open"

\* the value C29 gives the plain form value of an input
StatedValue(val) ==
    IF val.type = "string" THEN val.v
    ELSE IF val.type = "FileUpload" THEN val.v.URL
    ELSE val.v[1].URL

\* the names of the queued files
QueuedNames == {fret.out.files[1][i].FieldName : i \in DOMAIN fret.out.files[1]}

\* C29: postDynamicInputs classifies a string input by the first matching
\* rule: UUID-shaped -> plain form value; names an existing non-directory
\* file -> file part; path-like (contains "/" or "\" or starts with ".") and
\* not an http(s) URL -> the call fails with an input error; anything else ->
\* plain form value.  A FileUpload that has only a URL is sent as a plain
\* form value holding the URL; any other FileUpload, reader or byte value
\* becomes a file part.
C29_Classification ==
    Posted =>
        LET inputs == fcall.inputs
            failing == {k \in DOMAIN inputs : StatedClass(inputs[k]) = "error"}
        IN IF failing # {}
           THEN /\ \E k \in failing : fret.out.err = InputError(k)
                /\ fret.out.request = Nil
           ELSE \A k \in DOMAIN inputs :
                   /\ StatedClass(inputs[k]) = "form" =>
                         /\ k \in DOMAIN fret.out.form[1]
                         /\ fret.out.form[1][k] = StatedValue(inputs[k])
                         /\ k \notin QueuedNames
                   /\ StatedClass(inputs[k]) = "file" =>
                         /\ k \in QueuedNames
                         /\ k \notin DOMAIN fret.out.form[1]

\* C29 witness: a string naming a file was queued as a file part, an upload
\* with only a URL became the form value holding the URL, and both were sent
C29_Witness ==
    /\ Posted
    /\ DOMAIN fcall.inputs = {"a", "b"}
    /\ fcall.inputs["a"].type = "string"
    /\ fcall.inputs["a"].v = <<".", "/", "f">>
    /\ fcall.inputs["b"].type = "FileUpload"
    /\ fcall.inputs["b"].v = FileUpload(<<>>, FALSE, HTTPURL)
    /\ fret.out.files = Ptr(<<[FieldName |-> "a", File |-> FileUpload(<<".", "/", "f">>, FALSE, <<>>)]>>)
    /\ fret.out.form = Ptr([k \in {"b"} |-> HTTPURL])
    /\ fret.out.request # Nil
    /\ fret.out.err = NilErr

\* the parts of the payload sent
SentParts == fret.out.request[1].body

\* every plain field and every queued file is one part of the payload, and
\* the payload has no other part
EveryPartOnce ==
    /\ \A k \in DOMAIN fret.out.form[1] :
          Cardinality({i \in DOMAIN SentParts :
                          SentParts[i] = Field(k, fret.out.form[1][k])}) = 1
    /\ \A j \in DOMAIN fret.out.files[1] :
          Cardinality({i \in DOMAIN SentParts :
                          SentParts[i] = FilePart(fret.out.files[1][j].FieldName,
                                                  fret.out.files[1][j].File)}) = 1
    /\ Len(SentParts) = Cardinality(DOMAIN fret.out.form[1]) + Len(fret.out.files[1])

\* the inputs were classified without an input error
Classified == Posted /\ fret.out.form # Nil

\* every queued file can be read
FilesReadable == \A i \in DOMAIN fret.out.files[1] : CanOpen(fret.out.files[1][i].File)

\* the payload is sent with the content type that goes with the queue
SentAsQueued ==
    /\ fret.out.request # Nil
    /\ fret.out.request[1].ContentType =
          (IF fret.out.files[1] = <<>> THEN "application/x-www-form-urlencoded"
           ELSE "multipart/form-data")
    /\ EveryPartOnce

----------------------------------------------------------------------------
(* Claims about the handles of a submission (SpecSubmit) *)

\* a call of Run or RunVersion has returned
RunDone == fcall.op \in {"Run", "RunVersion"} /\ fret # NotReturned

\* the submission request of the run call was sent and succeeded
RunSubmitted ==
    /\ fret.out.post # Nil
    /\ fret.out.post[1].request # Nil
    /\ fret.out.post[1].err = NilErr

\* a Job is returned only for a submission that succeeded, and without an
\* error; every failure returns the error and no Job
JobOnlyOnSuccess ==
    RunDone =>
        /\ fret.out.job # NoJob => (RunSubmitted /\ fret.out.err = NilErr)
        /\ fret.out.job = NoJob <=> fret.out.err # NilErr

\* the sequence is strictly increasing
Increasing(seq) == \A i, j \in DOMAIN seq : i < j => seq[i] < seq[j]

\* a JobBatch is returned only when the request of every chunk succeeded, and
\* it holds the ids answered for all chunks in submission order; every
\* failure returns the error and no JobBatch, whatever was accepted before
BatchOnlyOnSuccess ==
    rmpc = "done" =>
        /\ rmRet.batch # NoBatch =>
              /\ rmRet.err = NilErr
              /\ rmSent = rmChunks
              /\ rmRet.batch[1].jobIDs = rmJobIDs
              /\ Increasing(rmJobIDs)
              /\ SetOf(rmJobIDs) \subseteq SetOf(rmArgs.batchInputs)
        /\ rmRet.batch = NoBatch <=> rmRet.err # NilErr

\* C31: Run, RunVersion and RunMany return a handle only if every submission
\* request succeeded, and on any failure they return no handle with the
\* error; the batch RunMany returns covers the job ids of all chunks in
\* submission order, or does not exist.
C31_HandleOnlyOnSuccess == JobOnlyOnSuccess /\ BatchOnlyOnSuccess

\* C31 witness: RunMany had its first chunk accepted, the request of the
\* second failed, and it returned the error with no JobBatch
C31_Witness ==
    /\ rmpc = "done"
    /\ Len(rmSent) = 2
    /\ Len(rmJobIDs) > 0
    /\ rmRet.batch = NoBatch
    /\ rmRet.err.kind \in {"transport", "api"}

----------------------------------------------------------------------------
(* Claims about the pending ids of JobBatch.WaitContext (SpecBatch) *)

\* the ids the step removes from pending
Removed == SetOf(pending) \ SetOf(pending')

\* the wait is past its entry and has not returned
Waiting == bpc \in {"check", "poll", "fetch", "after", "tick"}

\* pending only loses ids, and keeps the order of those it keeps
PendingShrinks ==
    Waiting => pending' = SelectSeq(pending, LAMBDA id : id \in SetOf(pending'))

\* the ids removed were reported terminal to this call, and their results are
\* in b.completed
RemovedWhenDone ==
    Waiting =>
        \A id \in Removed :
            /\ id \in DOMAIN reported /\ IsTerminal(reported[id])
            /\ id \in DOMAIN statuses' /\ IsTerminal(statuses'[id])
            /\ id \in DOMAIN completed'

\* when the results of the ready ids are stored and the wait goes on, none of
\* them stays pending
DoneWhenRemoved ==
    (bpc = "fetch" /\ bpc' = "after") =>
        /\ Removed = SetOf(ready)
        /\ SetOf(ready) \subseteq DOMAIN completed'

\* a status request is sent for the pending ids and a result request for the
\* ready ids, which are pending: no request names an id removed before
RequestsOnlyPending ==
    /\ bpc = "fetch" => (SetOf(ready) \subseteq SetOf(pending) /\ Len(ready) > 0)
    /\ Waiting => SetOf(pending) \subseteq SetOf(jobIDs)

\* C32: within one JobBatch.WaitContext call the pending set only shrinks: an
\* id is removed from pending exactly when it was observed terminal and its
\* result was stored, and an id removed from pending is never included in
\* any later status or result request of that call.
C32_PendingOnlyShrinks ==
    /\ [][PendingShrinks /\ RemovedWhenDone /\ DoneWhenRemoved]_vars
    /\ [](RequestsOnlyPending)

\* C32 witness: of two jobs one was removed from pending with its result
\* stored, and the wait is about to request the status of the other alone
C32_Witness ==
    /\ bpc = "poll"
    /\ Len(jobIDs) = 2
    /\ Len(pending) = 1
    /\ \E id \in SetOf(jobIDs) \ SetOf(pending) : id \in DOMAIN completed

----------------------------------------------------------------------------
(* Claims about a request of a wait that fails (SpecWait) *)

\* a status request of Job.WaitContext that returned an error was its last
\* request, and the wait returned that error with the zero result
JobStatusErrorReturned ==
    \A k \in DOMAIN statusCalls :
        statusCalls[k].err # NilErr =>
            /\ k = Len(statusCalls)
            /\ resultCalls = <<>>
            /\ jpc = "done"
            /\ jret = [result |-> ZeroResult, err |-> statusCalls[k].err]

\* the same for its result request
JobResultErrorReturned ==
    \A k \in DOMAIN resultCalls :
        resultCalls[k].err # NilErr =>
            /\ k = Len(resultCalls)
            /\ jtrace[Len(jtrace)] = "result"
            /\ jpc = "done"
            /\ jret = [result |-> ZeroResult, err |-> resultCalls[k].err]

\* a status or result request of JobBatch.WaitContext that returned an error
\* was its last request, and the wait returned that error with nil results
BatchRequestErrorReturned ==
    bfailed.err # NilErr =>
        /\ bfailed.after = 0
        /\ bpc = "done"
        /\ bret = [results |-> NoResults, err |-> bfailed.err]

\* C33: the poll loop never retries a failed call itself: if a status or
\* result request issued by Job.WaitContext or JobBatch.WaitContext returns
\* an error, the wait returns that error at once with a zero/nil result and
\* issues no further request.
C33_NoRetryInPollLoop ==
    JobStatusErrorReturned /\ JobResultErrorReturned /\ BatchRequestErrorReturned

\* C33 witness: the second status request of a batch wait failed in
\* transport, after one job had completed, and the wait returned that error
C33_Witness ==
    /\ bpc = "done"
    /\ bfailed.err.kind = "transport"
    /\ DOMAIN completed # {}
    /\ Len(pending) > 0
    /\ bret = [results |-> NoResults, err |-> bfailed.err]

----------------------------------------------------------------------------
(* Claims about the maps of a JobBatch over its calls (SpecSequence) *)

\* no step of a wait or of RetrieveStatus, and no new call, takes a key out
\* of b.statuses or b.completed, or changes b.jobIDs
MapsGrow ==
    /\ DOMAIN statuses \subseteq DOMAIN statuses'
    /\ DOMAIN completed \subseteq DOMAIN completed'
    /\ jobIDs' = jobIDs

\* every completed id has a recorded status
CompletedHaveStatus == DOMAIN completed \subseteq DOMAIN statuses

\* C34: across any sequence of WaitContext and RetrieveStatus calls on one
\* JobBatch (including calls that end in error or cancellation), the key
\* sets of the statuses map and of the completed-results map never shrink,
\* the canonical job id order never changes, and every id in the completed
\* map has a recorded status.
C34_MapsOnlyGrow == [][MapsGrow]_vars /\ [](CompletedHaveStatus)

\* C34 witness: a first wait stored the result of a failed job, a
\* RetrieveStatus call was made, a second wait was cancelled, and the maps
\* still hold what the first wait stored
C34_Witness ==
    /\ snapWaits = 2
    /\ snapCalls > 0
    /\ bpc = "done"
    /\ bret.err.name = "Canceled"
    /\ DOMAIN completed = {"job-1"}
    /\ statuses = [id \in {"job-1"} |-> JobFailure]

----------------------------------------------------------------------------
(* Claims about the attempts behind a nil error (SpecHTTP) *)

\* doRequest has returned
HTTPDone == pc = "done"

\* the last attempt received a 2xx response whose body was read
LastAttempt2xx ==
    /\ calls # <<>>
    /\ calls[Len(calls)].err = "nil"
    /\ calls[Len(calls)].readOK
    /\ calls[Len(calls)].status >= 200
    /\ calls[Len(calls)].status < 300

\* C37: doRequest returns a nil error only if one of its attempts received
\* a 2xx response: for every Config (MaxRetries may be negative) at least one
\* attempt is made before doRequest returns, and it never returns a nil body
\* with a nil error without having contacted the server.  A return without
\* an attempt (context done, URL or body error) is held to the claim only in
\* that it must carry an error.
C37_NilErrorOnlyAfter2xx ==
    HTTPDone =>
        /\ ret.err = NilErr => LastAttempt2xx
        /\ calls = <<>> => ret.err # NilErr
        /\ ret # [body |-> NoBody, err |-> NilErr]

-----------------------------------------------------------------------------
(* C38: every attempt of a request is sent with the method, the URL and the *)
(* body bytes of the call, the body read once and replayed from its start  *)

\* every attempt so far has sent one request
OneRequestPerAttempt == Len(wire) = Len(calls)

\* the request of every attempt has the method and the URL of the call
SameMethodAndURL ==
    \A k \in DOMAIN wire : wire[k].method = args.method /\ wire[k].url = args.url

\* the request of every attempt has the whole body the caller passed, none
\* if the caller passed none
SameBody ==
    \A k \in DOMAIN wire :
        wire[k].body = (IF args.body.kind = "nil" THEN Nil ELSE Ptr(args.body.data))

C38_SameRequestEveryAttempt == OneRequestPerAttempt /\ SameMethodAndURL /\ SameBody

\* a retry of a POST with a body read from a reader has been sent
C38_Witness ==
    /\ Len(wire) >= 2
    /\ args.method = "POST"
    /\ args.body.kind = "Reader"
    /\ wire[2].body = Ptr(<<"x", "y">>)

-----------------------------------------------------------------------------
(* C39: the headers of every attempt are built anew from the client's and  *)
(* the call's headers, which no attempt changes: values do not pile up     *)

\* the request id of the attempts is one generateRequestID made
IDGenerated ==
    /\ Get(applyHeaders(Headers(cfg.APIKey), cfg.ExtraHeaders, args.headers),
           cfg.RequestIDHeader) = <<>>
    /\ cfg.DefaultRequestID = <<>>
    /\ cfg.AutoRequestID

\* the headers of every attempt are those of the first, but for a generated
\* request id, of which every attempt has one
SameHeaders ==
    \A k \in DOMAIN wire :
        /\ DOMAIN wire[k].Header = DOMAIN wire[1].Header
        /\ \A name \in DOMAIN wire[k].Header :
              IF IDGenerated /\ name = CanonicalKey(cfg.RequestIDHeader)
              THEN Len(wire[k].Header[name]) = 1 /\ wire[k].Header[name][1] \in GeneratedIDs
              ELSE wire[k].Header[name] = wire[1].Header[name]

\* no step changes the headers of the call or the configuration of the client
InputsKept == args' = args /\ cfg' = cfg

C39_HeadersBuiltAnew == [](SameHeaders) /\ [][InputsKept]_vars

\* a retry has been sent by a client with an extra header, for a call with
\* an Authorization of its own: both attempts carry two Authorization values
C39_Witness ==
    /\ Len(wire) >= 2
    /\ "X-Team" \in DOMAIN wire[2].Header
    /\ "Authorization" \in DOMAIN wire[2].Header
    /\ Len(wire[1].Header["Authorization"]) = 2
    /\ Len(wire[2].Header["Authorization"]) = 2

-----------------------------------------------------------------------------
(* C40: a submission of dynamic inputs that fails locally, in the          *)
(* classification or in the preparation of a file, returns that error and  *)
(* sends no request, whatever the other inputs are                          *)

\* postDynamicInputs has returned
PostReturned == fcall.op = "postDynamicInputs" /\ fret.returned

\* the inputs that are strings which look like a path and name no file
NoSuchFile ==
    {k \in DOMAIN fcall.inputs :
        /\ fcall.inputs[k].type = "string"
        /\ ~isUUIDString(fcall.inputs[k].v)
        /\ fcall.inputs[k].v \notin Files \cup EmptyFiles
        /\ looksLikePath(fcall.inputs[k].v)
        /\ ~isHTTPURL(fcall.inputs[k].v)}

\* the local path an input is read from, none if it is not read from one
PathOf(val) ==
    LET c == classify(val)
    IN IF c.class = "file" /\ ~c.File.Reader THEN c.File.Path ELSE <<>>

\* the limit on the size of the file of an input, 0 if there is none
LimitOf(val) ==
    LET c == classify(val)
    IN IF c.class = "file" THEN c.File.MaxBytes ELSE 0

\* the inputs read from a path that cannot be opened, is a directory, is an
\* empty file, or is a file above the limit of the upload
Unopenable == {k \in DOMAIN fcall.inputs :
                  LET path == PathOf(fcall.inputs[k])
                  IN path # <<>> /\ path \notin Files \cup EmptyFiles \cup Dirs}
Directories == {k \in DOMAIN fcall.inputs : PathOf(fcall.inputs[k]) \in Dirs}
Empties == {k \in DOMAIN fcall.inputs : PathOf(fcall.inputs[k]) \in EmptyFiles}
TooLarge == {k \in DOMAIN fcall.inputs :
                LET path == PathOf(fcall.inputs[k])
                    limit == LimitOf(fcall.inputs[k])
                IN path \in Files /\ limit > 0 /\ Size(path) > limit}

\* the error of the call is the one of an input that fails
ThatError ==
    \/ \E k \in NoSuchFile : fret.out.err = InputError(k)
    \/ Unopenable # {} /\ fret.out.err = FileError("open")
    \/ Directories # {} /\ fret.out.err = FileError("got directory")
    \/ Empties # {} /\ fret.out.err = FileError("is empty")
    \/ TooLarge # {} /\ fret.out.err = FileError("exceeds max size")
    \/ fret.out.err = FileError("requires Path, Reader, or URL")

C40_LocalFailureSendsNothing ==
    PostReturned =>
        /\ NoSuchFile \cup Unopenable \cup Directories \cup Empties \cup TooLarge # {}
              => fret.out.request = Nil /\ ThatError
        /\ NoSuchFile # {} => \E k \in NoSuchFile : fret.out.err = InputError(k)
        /\ fret.out.err \in FileErrors \/ (\E k \in DOMAIN fcall.inputs : fret.out.err = InputError(k))
              => fret.out.request = Nil

\* a file above its limit beside a file that can be read: nothing was sent
C40_Witness ==
    /\ PostReturned
    /\ DOMAIN fcall.inputs = {"a", "b"}
    /\ TooLarge = {"b"}
    /\ fcall.inputs["a"].type = "io.Reader"
    /\ fret.out.err = FileError("exceeds max size")
    /\ fret.out.request = Nil

-----------------------------------------------------------------------------
(* C35: doRequest writes no field of the client or of its Config, so the   *)
(* attempts and the outcome of each of two interleaved calls on one client *)
(* depend on the answers to its own attempts alone                          *)

\* no step writes the Config of the client
ClientKept == cfg' = cfg

\* the call has returned what its attempts led to: its context was never
\* done and it got as far as its first attempt
Settled(call) ==
    /\ call.pc = "done"
    /\ call.ctxDoneAt.pc = "never"
    /\ call.ret.err.kind # "local"

\* the answers a are the first of the answers b, which are more
StrictPrefix(a, b) == Len(a) < Len(b) /\ SubSeq(b, 1, Len(a)) = a

\* a call that returned after some answers returned what any call returns
\* after these answers, and no call went on after them
SameAnswersSameOutcome(one, other) ==
    Settled(one) =>
        /\ Len(one.calls) <= cfg.MaxRetries + 1
        /\ ~StrictPrefix(one.calls, other.calls)
        /\ Settled(other) /\ other.calls = one.calls => other.ret = one.ret

OwnAnswersOnly ==
    parked # Nil =>
        /\ SameAnswersSameOutcome(Locals, parked[1])
        /\ SameAnswersSameOutcome(parked[1], Locals)

C35_NoSharedCallState == [][ClientKept]_vars /\ [](OwnAnswersOnly)

\* the two calls were interleaved: the one returned an error after two
\* answers, the other, which began meanwhile, its body after one
C35_Witness ==
    /\ parked # Nil
    /\ Settled(Locals)
    /\ Settled(parked[1])
    /\ Len(calls) = 2
    /\ ret.err # NilErr
    /\ Len(parked[1].calls) = 1
    /\ parked[1].ret.err = NilErr
    /\ running = 1

-----------------------------------------------------------------------------
(* C36: two overlapping calls on one JobBatch write b.statuses without     *)
(* synchronization: while the write of one is under way the other is free  *)
(* to write the map                                                         *)

\* RetrieveStatus is in its write of b.statuses and WaitContext is at the
\* status call whose answer it writes into b.statuses
BothAtWrite == rpc = "writing" /\ bpc = "poll"

C36_WritesNotSynchronized == BothAtWrite => ENABLED BatchPollStatus

\* WaitContext wrote the status of job-1 into b.statuses while the write of
\* RetrieveStatus for job-1 was under way
C36_Witness ==
    /\ rpc = "writing"
    /\ Head(rwrites).id = "job-1"
    /\ "job-1" \notin DOMAIN raceBefore
    /\ "job-1" \in DOMAIN statuses
    /\ bpc \in {"fetch", "after"}

====
